---- MODULE Spec2Model ----
(***************************************************************************)
(* Model of the chat core of chatbot-widget:                               *)
(*   - the conversation store of ChatbotProvider (two tracks of messages,  *)
(*     addMessage / updateMessage / clearMessages),                        *)
(*   - useChatApi: sendMessage, sendStandardMessage, sendStreamingMessage  *)
(*     with its SSE line framer (readStream) and decoder (processLine).    *)
(*                                                                         *)
(* JavaScript values are modelled as strings ("true", "85", "s1", ...),    *)
(* the absent value as Undef.  Transport text is a sequence of symbols;    *)
(* a JSON payload is a sequence of JSON tokens.  Indices of the code are   *)
(* 0-based and kept 0-based: message i of the code is element i+1 here.    *)
(***************************************************************************)
EXTENDS Integers, Sequences, FiniteSets, TLC

\* ---------------------------------------------------------------- bounds
\* most requests (research streams and standard requests together) ever
\* started in one behaviour
MaxCalls == 2
\* most successful reads (chunks) delivered to one stream
MaxReads == 2
\* most messages the two tracks hold together in StoreSpec
MaxStored == 2
\* most mounts of the provider in StoreSpec
MaxMounts == 2

\* ------------------------------------------------------------ JS values
Undef == "undefined"
Empty == ""

\* a || b
JsOr(a, b) == IF a \in {Undef, Empty} THEN b ELSE a

\* ------------------------------------------------------------ text
NL == "\n"
IsSpace(c) == c \in {" ", "\r"}

RECURSIVE TrimLeft(_)
TrimLeft(s) ==
  IF s # <<>> /\ IsSpace(Head(s)) THEN TrimLeft(Tail(s)) ELSE s

RECURSIVE TrimRight(_)
TrimRight(s) ==
  IF s # <<>> /\ IsSpace(s[Len(s)]) THEN TrimRight(SubSeq(s, 1, Len(s) - 1)) ELSE s

\* String.prototype.trim
Trim(s) == TrimRight(TrimLeft(s))

\* String.prototype.startsWith
StartsWith(s, prefix) ==
  Len(s) >= Len(prefix) /\ SubSeq(s, 1, Len(prefix)) = prefix

\* String.prototype.substring(n)
Substring(s, n) == SubSeq(s, n + 1, Len(s))

\* String.prototype.split('\n'): the segments between separators, in order;
\* always at least one segment
RECURSIVE SplitFrom(_, _, _)
SplitFrom(text, i, cur) ==
  IF i > Len(text) THEN <<cur>>
  ELSE IF text[i] = NL THEN <<cur>> \o SplitFrom(text, i + 1, <<>>)
  ELSE SplitFrom(text, i + 1, Append(cur, text[i]))

Split(text) == SplitFrom(text, 1, <<>>)

\* ------------------------------------------------------------ JSON
\* A payload is written as JSON tokens: "{" , member tokens, "}" , or the
\* single token "null".  Each member token stands for one "key":value.
JsonMember ==
  [tok \in {"sessionId:s1", "sessionId:s2", "canGoDeeper:true",
            "deeperSuggestion:more", "remainingQuota:0", "message:boom",
            "message:thinking", "answer:A1", "model:m1", "outline:[o1]",
            "analysis:deep"} |->
     CASE tok = "sessionId:s1"          -> <<"sessionId", "s1">>
       [] tok = "sessionId:s2"          -> <<"sessionId", "s2">>
       [] tok = "canGoDeeper:true"      -> <<"canGoDeeper", "true">>
       [] tok = "deeperSuggestion:more" -> <<"deeperSuggestion", "more">>
       [] tok = "remainingQuota:0"      -> <<"remainingQuota", "0">>
       [] tok = "message:boom"          -> <<"message", "boom">>
       [] tok = "message:thinking"      -> <<"message", "thinking">>
       [] tok = "answer:A1"             -> <<"answer", "A1">>
       [] tok = "model:m1"              -> <<"model", "m1">>
       [] tok = "outline:[o1]"          -> <<"outline", "[o1]">>
       [] tok = "analysis:deep"         -> <<"analysis", "deep">>]

JsonKeys == {"sessionId", "canGoDeeper", "deeperSuggestion", "remainingQuota",
             "message", "answer", "model", "outline", "analysis"}

\* the value of JSON null
JsNull == [null |-> TRUE]

\* the object built from member tokens, a later member overriding an earlier
RECURSIVE JsonObject(_, _)
JsonObject(members, obj) ==
  IF members = <<>> THEN obj
  ELSE LET kv == JsonMember[Head(members)] IN
       JsonObject(Tail(members), [obj EXCEPT ![kv[1]] = kv[2]])

\* JSON.parse: [ok |-> FALSE] when it throws a SyntaxError
JsonParse(text) ==
  LET toks == SelectSeq(text, LAMBDA c : ~IsSpace(c)) IN
  IF toks = <<"null">> THEN [ok |-> TRUE, value |-> JsNull]
  ELSE IF /\ Len(toks) >= 2
          /\ toks[1] = "{"
          /\ toks[Len(toks)] = "}"
          /\ \A i \in 2..(Len(toks) - 1) : toks[i] \in DOMAIN JsonMember
       THEN [ok |-> TRUE,
             value |-> JsonObject(SubSeq(toks, 2, Len(toks) - 1),
                                  [k \in JsonKeys |-> Undef])]
       ELSE [ok |-> FALSE]

\* ------------------------------------------------------------ messages
\* types.ts Message; an optional field that is absent holds Undef.
\* placeholderOf is no field of the code: it names the turn (its position in
\* turns) whose placeholder the message is, 0 for any other message, and no
\* operation reads it.
MessageFields == {"role", "content", "mode", "model", "outline", "confidence",
                  "route", "isStreaming", "streamingStatus", "sessionId",
                  "canGoDeeper", "deeperSuggestion", "deeperAnalysis",
                  "isLoadingDeeper", "timestamp", "placeholderOf"}

\* new Date(): a Date is the time it holds, in milliseconds; within one
\* behaviour of Spec the clock does not advance
Now == [time |-> 1500]

NewMessage(role, content, mode) ==
  [f \in MessageFields |->
     CASE f = "role"    -> role
       [] f = "content" -> content
       [] f = "mode"    -> mode
       [] f = "timestamp" -> Now
       [] f = "placeholderOf" -> 0
       [] OTHER         -> Undef]

\* { ...message, ...updates }: every key of updates overwrites, a key whose
\* value is undefined included
Merge(message, updates) ==
  [f \in MessageFields |-> IF f \in DOMAIN updates THEN updates[f] ELSE message[f]]

\* ------------------------------------------------------------ state
VARIABLES
  messages,          \* ChatbotProvider: standard track
  researchMessages,  \* ChatbotProvider: research track
  isResearchMode,    \* ChatbotProvider
  articleContext,    \* ChatbotProvider: TRUE when an article context is set
  auth,              \* ChatbotProvider: [isAuthenticated, token]
  remainingQuota,    \* ChatbotProvider
  isLoading,         \* ChatbotProvider
  error,             \* ChatbotProvider: the top-level error slot
  turns,             \* the calls of sendStreamingMessage, in call order
  standardCalls,     \* the calls of sendStandardMessage, in call order
  deepers,           \* the calls of requestDeeperAnalysis, in call order
  storage,           \* localStorage: under each key no item (<<>>) or one
  mounts,            \* how many times ChatbotProvider has been mounted
  authRequired,      \* the calls of config.onAuthRequired by sendMessage, in
                     \* call order: the content of the sendMessage that made it
  wire,              \* the bytes of a response body not yet read
  delivered,         \* the bytes of that body read so far
  handed,            \* the lines readStream has passed to processLine so far
  spans              \* what has crossed a chunk boundary so far: "line" when a
                     \* read completed a line begun in an earlier read, "pair"
                     \* when a read decoded a data line under an event type an
                     \* earlier read had left pending

\* wire, delivered, handed and spans follow one response body from its first byte;
\* only WireSpec uses them
wireVars == <<wire, delivered, handed, spans>>

vars == <<messages, researchMessages, isResearchMode, articleContext, auth,
          remainingQuota, isLoading, error, turns, standardCalls, deepers,
          storage, mounts, authRequired, wireVars>>

\* ------------------------------------------------------------ persistence
MessagesKey == "chatbot-messages"
ResearchKey == "chatbot-research-messages"

ClientIdKey == "chatbot-client-id"

\* localStorage with no item under any key
NoItems == [key \in {MessagesKey, ResearchKey, ClientIdKey} |-> <<>>]

\* `client-${Date.now()}-${Math.random().toString(36).slice(2)}`, the random
\* part being the one draw of the behaviour
NewClientId == <<"client-", Now.time, "-", "k3j9x">>

\* getClientId(): the identifier it returns
GetClientId(store) ==
  IF store[ClientIdKey] # <<>> THEN store[ClientIdKey][1] ELSE NewClientId

\* getClientId(): localStorage after the call
WithClientId(store) == [store EXCEPT ![ClientIdKey] = <<GetClientId(store)>>]

\* `Bearer ${auth.token}`
Bearer(token) == <<"Bearer ", token>>

\* the headers of a request of sendStandardMessage or sendStreamingMessage
RequestHeaders(token, store) ==
  LET names == {"Content-Type", "X-Client-ID"}
                 \cup (IF token \notin {Undef, Empty} THEN {"Authorization"} ELSE {})
  IN [h \in names |->
        CASE h = "Content-Type" -> "application/json"
          [] h = "X-Client-ID"  -> GetClientId(store)
          [] h = "Authorization" -> Bearer(token)]

\* the headers of a request of requestDeeperAnalysis
DeeperHeaders(token) ==
  [h \in {"Content-Type", "Authorization"} |->
     IF h = "Content-Type" THEN "application/json" ELSE Bearer(token)]

\* Date.prototype.toISOString with the fraction of the second left out
ToISOStringSeconds(date) ==
  [seconds |-> date.time \div 1000, millis |-> 0]

\* Date.prototype.toISOString, as JSON.stringify calls it through toJSON: the
\* text names the second and the milliseconds within it
ToISOString(date) ==
  [seconds |-> date.time \div 1000, millis |-> date.time % 1000]

\* new Date(text) of an ISO text
DateFromISO(iso) == [time |-> iso.seconds * 1000 + iso.millis]

\* JSON.stringify of a message, as JSON.parse reads it back: the keys whose
\* value is not undefined, the timestamp as its ISO text
StringifyMessage(m) ==
  [f \in {g \in MessageFields :
            IF g \in {"timestamp", "placeholderOf"} THEN TRUE ELSE m[g] # Undef} |->
     IF f = "timestamp" THEN ToISOString(m[f]) ELSE m[f]]

\* JSON.stringify(messages)
JsonStringify(track) == [k \in DOMAIN track |-> StringifyMessage(track[k])]

\* { ...m, timestamp: new Date(m.timestamp) }; a key the item lacks reads as
\* undefined
HydrateMessage(m) ==
  [f \in MessageFields |->
     IF f = "timestamp" THEN DateFromISO(m[f])
     ELSE IF f \in DOMAIN m THEN m[f] ELSE Undef]

\* the track the mount effect sets from what getItem returned
Hydrate(item) ==
  IF item = <<>> THEN <<>>
  ELSE [k \in DOMAIN item[1] |-> HydrateMessage(item[1][k])]

\* SaveEffect without the test of the length: setItem after every change
SaveEffectOfEmptyTrack(key, track, store) ==
  [store EXCEPT ![key] = <<JsonStringify(track)>>]

\* the effect on [messages] or [researchMessages]: setItem when the track is
\* not empty
SaveEffect(key, track, store) ==
  IF Len(track) > 0 THEN [store EXCEPT ![key] = <<JsonStringify(track)>>]
  ELSE store

\* Saved with both effects writing under 'chatbot-messages'
SavedUnderOneKey ==
  storage' = SaveEffect(MessagesKey, messages',
                        SaveEffect(MessagesKey, researchMessages', storage))

\* both save effects, run after the render that follows an operation
Saved ==
  storage' = SaveEffect(MessagesKey, messages',
                        SaveEffect(ResearchKey, researchMessages', storage))

\* Saved for an operation that called getClientId()
SavedWithClientId ==
  storage' = SaveEffect(MessagesKey, messages',
                        SaveEffect(ResearchKey, researchMessages',
                                   WithClientId(storage)))

\* ------------------------------------------------------------ store
\* addMessage: setX(prev => [...prev, message])
AddMessage(msgs, message) == Append(msgs, message)

\* updateMessage without the test of updated[index]: the assignment
\* updated[index] = { ...updated[index], ...updates } then creates the record,
\* after holes when index is beyond the length
UpdateMessageUnguarded(msgs, index, updates) ==
  LET hole == NewMessage(Undef, Undef, Undef)
      len == IF index + 1 > Len(msgs) THEN index + 1 ELSE Len(msgs)
  IN [k \in 1..len |->
        IF k = index + 1
        THEN Merge(IF k \in DOMAIN msgs THEN msgs[k] ELSE hole, updates)
        ELSE IF k \in DOMAIN msgs THEN msgs[k] ELSE hole]

\* updateMessage: merges into the record at index when there is one
UpdateMessage(msgs, index, updates) ==
  IF index + 1 \in DOMAIN msgs
  THEN [msgs EXCEPT ![index + 1] = Merge(@, updates)]
  ELSE msgs

\* ------------------------------------------------------------ TextDecoder
\* Bytes are symbols.  LeadByte and ContByte are the two bytes of a two-byte
\* UTF-8 character, which decodes to the symbol TwoByteChar; every other
\* symbol is a one-byte character and decodes to itself.
LeadByte == "C3"
ContByte == "A9"
TwoByteChar == "e'"
Replacement == "FFFD"

\* TextDecoder.decode(value, { stream: true }): pending is the incomplete
\* character held back from the previous call; the result is the decoded
\* text and the bytes held back for the next call
RECURSIVE DecodeFrom(_, _, _)
DecodeFrom(bytes, i, out) ==
  IF i > Len(bytes) THEN [text |-> out, pending |-> <<>>]
  ELSE IF bytes[i] = LeadByte
       THEN IF i = Len(bytes) THEN [text |-> out, pending |-> <<LeadByte>>]
            ELSE IF bytes[i + 1] = ContByte
                 THEN DecodeFrom(bytes, i + 2, Append(out, TwoByteChar))
                 ELSE DecodeFrom(bytes, i + 1, Append(out, Replacement))
       ELSE IF bytes[i] = ContByte
            THEN DecodeFrom(bytes, i + 1, Append(out, Replacement))
            ELSE DecodeFrom(bytes, i + 1, Append(out, bytes[i]))

Decode(pending, value) == DecodeFrom(pending \o value, 1, <<>>)

\* ------------------------------------------------------------ a turn
\* the response of a request whose fetch has not settled
NoResponse == [kind |-> "none"]

\* One call of sendStreamingMessage: its closure variables, its promise and
\* the position of its request.  id, placeholderAt, afterDone, afterError,
\* patchedAt, changedAfterDone, patchedAfterError, doneSessionId, patchMissed,
\* response, quotaSeen and sendRefused record what the call did and met and
\* are read by no operation.
NewTurn(id, caller, messageIndex, placeholderAt, sessionId, isFollowUp, headers) ==
  [id                |-> id,             \* its position in turns
   caller            |-> caller,         \* "sendMessage" or "direct"
   messageIndex      |-> messageIndex,   \* const messageIndex
   placeholderAt     |-> placeholderAt,  \* index the placeholder was appended at
   request           |-> [sessionId |-> sessionId, articleContext |-> ~isFollowUp],
   headers           |-> headers,        \* const headers
   phase             |-> "fetching",     \* "fetching", then "reading" or "failed"
                                         \* (no stream), then "closed" (the
                                         \* reader reported done) or "broken"
                                         \* (a read threw)
   decoderPending    |-> <<>>,           \* state of decoder
   partialLine       |-> <<>>,           \* let partialLine
   eventBuffer       |-> <<>>,           \* let eventBuffer
   receivedDone      |-> FALSE,          \* let receivedDone
   promise           |-> "pending",      \* "pending", "resolved", "rejected"
   reason            |-> Undef,          \* message of the rejection
   reads             |-> 0,              \* chunks read so far
   afterDone         |-> FALSE,          \* a done event was handled
   afterError        |-> FALSE,          \* an error event was handled
   patchedAt         |-> {},             \* indices its events' patches merged into
   changedAfterDone  |-> FALSE,          \* its placeholder changed after a done event
   patchedAfterError |-> FALSE,          \* its placeholder was patched after an
                                         \* error event
   doneSessionId     |-> Undef,          \* data.sessionId of the done event that
                                         \* was handled last
   patchMissed       |-> FALSE,          \* one of its patches found no message
                                         \* at messageIndex
   response          |-> NoResponse,     \* what fetch settled with
   quotaSeen         |-> Undef,          \* data.remainingQuota of the done event
                                         \* in the chunk read last, Undef when
                                         \* that chunk had none
   sendRefused       |-> FALSE]          \* handleSend returned at once on a
                                         \* non-blank input while the turn was
                                         \* pending

\* resolve() settling the promise again when it was settled already
ResolveSettledAgain(c) == [c EXCEPT !.t.promise = "resolved"]

\* resolve() and reject(): only the first settlement of a promise counts
Resolve(c) ==
  IF c.t.promise = "pending" THEN [c EXCEPT !.t.promise = "resolved"] ELSE c

Reject(c, reason) ==
  IF c.t.promise = "pending"
  THEN [c EXCEPT !.t.promise = "rejected", !.t.reason = reason]
  ELSE c

\* updateMessage(messageIndex, updates, true) called by the turn c.t on the
\* research track c.rm
Patch(c, updates) ==
  LET rm2 == UpdateMessage(c.rm, c.t.messageIndex, updates)
      own == /\ c.t.messageIndex + 1 \in DOMAIN c.rm
             /\ c.rm[c.t.messageIndex + 1].placeholderOf = c.t.id
  IN [c EXCEPT
        !.rm = rm2,
        !.t.patchMissed = @ \/ (c.t.messageIndex + 1 \notin DOMAIN c.rm),
        !.t.changedAfterDone = @ \/ (c.t.afterDone /\ own /\ rm2 # c.rm),
        !.t.patchedAfterError = @ \/ (c.t.afterError /\ own)]

\* updateMessage(messageIndex, updates, true) called for an event
EventPatch(c, updates) ==
  LET hit == c.t.messageIndex + 1 \in DOMAIN c.rm
  IN [Patch(c, updates) EXCEPT
        !.t.patchedAt = IF hit THEN @ \cup {c.t.messageIndex} ELSE @]

\* PropagateQuota with the test if (data.remainingQuota): a quota of 0 is not
\* passed on
PropagateQuotaWhenTruthy(c, data) ==
  IF data.remainingQuota \notin {Undef, Empty, "0"}
  THEN [c EXCEPT !.quota = data.remainingQuota] ELSE c

\* if (data.remainingQuota !== undefined) setRemainingQuota(...)
PropagateQuota(c, data) ==
  IF data.remainingQuota # Undef THEN [c EXCEPT !.quota = data.remainingQuota] ELSE c

\* 'event: ' and 'data: ', each written as a word and a space
EventPrefix == <<"event:", " ">>
DataPrefix == <<"data:", " ">>

\* the switch of processLine; reading a property of null throws a TypeError,
\* which the catch around the switch swallows
Dispatch(c, eventType, data) ==
  CASE eventType = <<"outline">> ->
         IF data = JsNull THEN c
         ELSE EventPatch(c, [outline         |-> JsOr(data.outline, "[]"),
                        model           |-> JsOr(data.model, Empty),
                        streamingStatus |-> "Preparing detailed response..."])
    [] eventType = <<"status">> ->
         IF data = JsNull THEN c
         ELSE EventPatch(c, [streamingStatus |-> JsOr(data.message, "Generating...")])
    [] eventType = <<"answer">> ->
         IF data = JsNull THEN c
         ELSE EventPatch(c, [content         |-> JsOr(data.answer, Empty),
                        model           |-> data.model,
                        isStreaming     |-> "false",
                        streamingStatus |-> Undef])
    [] eventType = <<"done">> ->
         LET c0 == [c EXCEPT !.t.receivedDone = TRUE]
             c1 == IF data = JsNull THEN c0
                   ELSE [c0 EXCEPT !.t.doneSessionId = data.sessionId,
                                   !.t.quotaSeen = data.remainingQuota]
             c2 == IF data = JsNull THEN c1
                   ELSE Resolve(PropagateQuota(
                          EventPatch(c1, [isStreaming |-> "false",
                                     streamingStatus  |-> Undef,
                                     confidence       |-> "85",
                                     route            |-> "research",
                                     sessionId        |-> data.sessionId,
                                     canGoDeeper      |-> data.canGoDeeper,
                                     deeperSuggestion |-> data.deeperSuggestion]),
                          data))
         IN [c2 EXCEPT !.t.afterDone = TRUE]
    [] eventType = <<"error">> ->
         LET c1 == IF data = JsNull THEN c
                   ELSE Reject(c, JsOr(data.message, "Stream error"))
         IN [c1 EXCEPT !.t.afterError = TRUE]
    [] OTHER -> c

\* ProcessLine without eventBuffer = '': a data: line leaves the pending event
\* type for the data: lines after it
ProcessLineTypeNotConsumed(c, line) ==
  IF StartsWith(line, EventPrefix)
  THEN [c EXCEPT !.t.eventBuffer = Trim(Substring(line, Len(EventPrefix)))]
  ELSE IF StartsWith(line, DataPrefix)
       THEN LET eventType == c.t.eventBuffer
                parsed == JsonParse(Substring(line, Len(DataPrefix)))
            IN IF parsed.ok THEN Dispatch(c, eventType, parsed.value) ELSE c
       ELSE c

\* ProcessLine with eventBuffer = '' inside the try block, after the switch:
\* a payload that does not parse leaves the pending event type as it was
ProcessLineFailureKeepsType(c, line) ==
  IF StartsWith(line, EventPrefix)
  THEN [c EXCEPT !.t.eventBuffer = Trim(Substring(line, Len(EventPrefix)))]
  ELSE IF StartsWith(line, DataPrefix)
       THEN LET eventType == c.t.eventBuffer
                parsed == JsonParse(Substring(line, Len(DataPrefix)))
            IN IF parsed.ok
               THEN [Dispatch(c, eventType, parsed.value) EXCEPT !.t.eventBuffer = <<>>]
               ELSE c
       ELSE c

\* processLine of sendStreamingMessage
ProcessLine(c, line) ==
  IF StartsWith(line, EventPrefix)
  THEN [c EXCEPT !.t.eventBuffer = Trim(Substring(line, Len(EventPrefix)))]
  ELSE IF StartsWith(line, DataPrefix)
       THEN LET eventType == c.t.eventBuffer
                parsed == JsonParse(Substring(line, Len(DataPrefix)))
                handled == IF parsed.ok THEN Dispatch(c, eventType, parsed.value)
                           ELSE c
            IN [handled EXCEPT !.t.eventBuffer = <<>>]
       ELSE c

\* Frame with the text of a chunk split on its own: const text = chunk
FrameDropsPartial(decoderPending, partialLine, value) ==
  LET dec == Decode(decoderPending, value)
      lines == Split(dec.text)
  IN [decoderPending |-> dec.pending,
      partialLine    |-> lines[Len(lines)],
      lines          |-> SubSeq(lines, 1, Len(lines) - 1)]

\* readStream, the framing of one chunk: text = partialLine + chunk, lines =
\* text.split('\n'), partialLine = lines.pop() || ''
Frame(decoderPending, partialLine, value) ==
  LET dec == Decode(decoderPending, value)
      lines == Split(partialLine \o dec.text)
  IN [decoderPending |-> dec.pending,
      partialLine    |-> lines[Len(lines)],
      lines          |-> SubSeq(lines, 1, Len(lines) - 1)]

\* the lines the loop hands to processLine: line.trim() of every line that
\* is not blank
RECURSIVE Handed(_)
Handed(lines) ==
  IF lines = <<>> THEN <<>>
  ELSE IF Trim(Head(lines)) # <<>>
       THEN <<Trim(Head(lines))>> \o Handed(Tail(lines))
       ELSE Handed(Tail(lines))

\* for (const line of lines) if (line.trim()) processLine(line.trim())
RECURSIVE ProcessLines(_, _)
ProcessLines(c, lines) ==
  IF lines = <<>> THEN c
  ELSE ProcessLines(ProcessLine(c, Head(lines)), Tail(lines))

\* FeedChunk with eventBuffer declared inside the read loop, so that every
\* chunk starts with no pending event type
FeedChunkForgetsEvent(c, value) ==
  LET fr == Frame(c.t.decoderPending, c.t.partialLine, value)
      c1 == [c EXCEPT !.t.decoderPending = fr.decoderPending,
                      !.t.partialLine = fr.partialLine,
                      !.t.quotaSeen = Undef,
                      !.t.eventBuffer = <<>>]
  IN ProcessLines(c1, Handed(fr.lines))

\* the body of the read loop of readStream for one chunk
FeedChunk(c, value) ==
  LET fr == Frame(c.t.decoderPending, c.t.partialLine, value)
      c1 == [c EXCEPT !.t.decoderPending = fr.decoderPending,
                      !.t.partialLine = fr.partialLine,
                      !.t.quotaSeen = Undef]
  IN ProcessLines(c1, Handed(fr.lines))

\* ------------------------------------------------------------ inputs
\* what the user types
Contents == {" ", " Hello "}

\* content.trim()
StrTrim(content) ==
  CASE content = " "       -> Empty
    [] content = " Hello " -> "Hello"
    [] OTHER               -> content

\* initialAuth of ChatbotProvider
AuthStates ==
  {[isAuthenticated |-> FALSE, token |-> Undef],
   [isAuthenticated |-> TRUE,  token |-> "jwt"]}

EventLine(type) == EventPrefix \o <<type, NL>>
DataLine(payload) == DataPrefix \o payload \o <<NL>>

\* an event: line and its data: line
Event(type, payload) == EventLine(type) \o DataLine(payload)

DoneS1 == <<"{", "sessionId:s1", "canGoDeeper:true", "}">>
DoneS2 == <<"{", "sessionId:s2", "}">>
Boom == <<"{", "message:boom", "}">>
Answer == <<"{", "answer:A1", "model:m1", "}">>
Thinking == <<"{", "message:thinking", "}">>
Outline == <<"{", "outline:[o1]", "model:m1", "}">>
NoMembers == <<"{", "}">>
Null == <<"null">>
Truncated == <<"{", "message:boom">>
Analysis == <<"{", "analysis:deep", "}">>
Quota0 == <<"{", "remainingQuota:0", "}">>
DoneS2Quota0 == <<"{", "sessionId:s2", "remainingQuota:0", "}">>

\* what one read of the response body may deliver
Chunks ==
  {Event("done", DoneS1), Event("done", DoneS2Quota0), Event("error", Boom),
   EventLine("done"), DataLine(DoneS1)}

\* ------------------------------------------------------------ Init
Init ==
  /\ messages = <<>>
  /\ researchMessages = <<>>
  /\ isResearchMode = FALSE
  /\ articleContext \in BOOLEAN
  /\ auth \in AuthStates
  /\ remainingQuota = "null"
  /\ isLoading = FALSE
  /\ error = "null"
  /\ turns = <<>>
  /\ standardCalls = <<>>
  /\ deepers = <<>>
  /\ storage = NoItems
  /\ mounts = 1
  /\ authRequired = <<>>
  /\ wire = <<>>
  /\ delivered = <<>>
  /\ handed = <<>>
  /\ spans = {}

\* ------------------------------------------------------------ operations
\* the requests started so far
Calls == Len(turns) + Len(standardCalls) + Len(deepers) + Len(authRequired)

\* the toggle of the widget header
SetIsResearchMode ==
  /\ isResearchMode' = ~isResearchMode
  /\ UNCHANGED <<messages, researchMessages, articleContext, auth, storage, mounts, authRequired,
                 remainingQuota, isLoading, error, turns, standardCalls, deepers,
                 wireVars>>

\* const existingSessionId = researchMessages.filter(...).map(...).pop()
ExistingSessionId(snapshot) ==
  LET withId == {i \in DOMAIN snapshot :
                   /\ snapshot[i].role = "assistant"
                   /\ snapshot[i].sessionId \notin {Undef, Empty}}
  IN IF withId = {} THEN Undef
     ELSE snapshot[CHOOSE i \in withId : \A j \in withId : j <= i].sessionId

\* sendStreamingMessage up to the fetch: snapshot is the researchMessages the
\* callback closed over (the track as last rendered), current is the track
\* with the updates queued since
StartStream(caller, snapshot, current, turn, headers) ==
  LET existingSessionId == ExistingSessionId(snapshot)
      isFollowUp == existingSessionId # Undef
      placeholderMessage ==
        [NewMessage("assistant", Empty, "research") EXCEPT
           !.placeholderOf = turn,
           !.isStreaming = "true",
           !.streamingStatus = IF isFollowUp THEN "Generating response..."
                               ELSE "Analyzing article..."]
  IN [rm   |-> AddMessage(current, placeholderMessage),
      turn |-> NewTurn(turn, caller, Len(snapshot), Len(current),
                       existingSessionId, isFollowUp, headers)]

\* Continuation with an empty catch block
ContinuationWithoutSetError(before, after) ==
  IF before.caller = "sendMessage" /\ before.promise = "pending"
     /\ after.promise # "pending"
  THEN /\ isLoading' = FALSE
       /\ UNCHANGED error
  ELSE UNCHANGED <<isLoading, error>>

\* the rest of sendMessage once the promise it awaits has settled:
\* catch { setError(...) } finally { setIsLoading(false) }
Continuation(before, after) ==
  IF before.caller = "sendMessage" /\ before.promise = "pending"
     /\ after.promise # "pending"
  THEN /\ isLoading' = FALSE
       /\ error' = IF after.promise = "rejected"
                   THEN JsOr(after.reason, "Failed to send message")
                   ELSE error
  ELSE UNCHANGED <<isLoading, error>>

\* sendMessage(content) in research mode with an article context
SendMessageResearch(content) ==
  /\ StrTrim(content) # Empty
  /\ auth.isAuthenticated
  /\ isResearchMode /\ articleContext
  /\ Calls < MaxCalls
  /\ LET userMessage == NewMessage("user", StrTrim(content), "research")
         started == StartStream("sendMessage", researchMessages,
                                AddMessage(researchMessages, userMessage),
                                Len(turns) + 1,
                                RequestHeaders(auth.token, storage))
     IN /\ researchMessages' = started.rm
        /\ turns' = Append(turns, started.turn)
  /\ isLoading' = TRUE
  /\ error' = "null"
  /\ UNCHANGED <<messages, isResearchMode, articleContext, auth, mounts, authRequired, remainingQuota,
                 standardCalls, deepers, wireVars>>
  /\ SavedWithClientId

\* SendMessageIgnored with the two tests of sendMessage in the other order:
\* config.onAuthRequired is called for blank content too
SendMessageIgnoredAuthFirst(content) ==
  /\ StrTrim(content) = Empty \/ ~auth.isAuthenticated
  /\ IF auth.isAuthenticated
     THEN UNCHANGED authRequired
     ELSE /\ Calls < MaxCalls
          /\ authRequired' = Append(authRequired, content)
  /\ UNCHANGED <<messages, researchMessages, isResearchMode, articleContext,
                 auth, remainingQuota, isLoading, error, turns, standardCalls,
                 deepers, storage, mounts, wireVars>>

\* sendMessage(content) returning early: blank content, or not authenticated
\* (config.onAuthRequired is then called)
SendMessageIgnored(content) ==
  /\ StrTrim(content) = Empty \/ ~auth.isAuthenticated
  /\ IF StrTrim(content) = Empty
     THEN UNCHANGED authRequired
     ELSE /\ Calls < MaxCalls
          /\ authRequired' = Append(authRequired, content)
  /\ UNCHANGED <<messages, researchMessages, isResearchMode, articleContext,
                 auth, remainingQuota, isLoading, error, turns, standardCalls,
                 deepers, storage, mounts, wireVars>>

\* One call of sendStandardMessage(question) by sendMessage: the question, the
\* isResearchMode sendMessage closed over, and whether the call is pending or
\* settled; response and reason record what fetch settled with and the
\* message of the error thrown, and are read by no operation.
NewStandardCall(question) ==
  [question       |-> question,
   headers        |-> RequestHeaders(auth.token, storage),
   isResearchMode |-> isResearchMode,
   status         |-> "pending",
   response       |-> NoResponse,
   reason         |-> Undef]

\* sendMessage(content) taking the standard path: not in research mode, or
\* no article context
SendMessageStandard(content) ==
  /\ StrTrim(content) # Empty
  /\ auth.isAuthenticated
  /\ ~(isResearchMode /\ articleContext)
  /\ Calls < MaxCalls
  /\ LET userMessage == NewMessage("user", StrTrim(content),
                                   IF isResearchMode THEN "research" ELSE "regular")
     IN IF isResearchMode
        THEN /\ researchMessages' = AddMessage(researchMessages, userMessage)
             /\ UNCHANGED messages
        ELSE /\ messages' = AddMessage(messages, userMessage)
             /\ UNCHANGED researchMessages
  /\ isLoading' = TRUE
  /\ error' = "null"
  /\ standardCalls' = Append(standardCalls, NewStandardCall(content))
  /\ UNCHANGED <<isResearchMode, articleContext, auth, mounts, authRequired, remainingQuota,
                 turns, deepers, wireVars>>
  /\ SavedWithClientId

\* what the chat endpoint may answer: fetch rejecting, a non-success status
\* with or without error.message in its body, or a RAGResponse
StandardOutcomes ==
  {[kind |-> "rejects"],
   [kind |-> "notok", message |-> "quota exceeded"],
   [kind |-> "notok", message |-> Undef],
   [kind |-> "ok", answer |-> "Hi!", confidence |-> "0.9", remainingQuota |-> Undef],
   [kind |-> "ok", answer |-> "Hi!", confidence |-> "0.9", remainingQuota |-> "0"]}

\* the message of the error sendStandardMessage throws (or fetch rejected
\* with)
StandardFailure(outcome) ==
  CASE outcome.kind = "rejects" -> "Failed to fetch"
    [] OTHER -> JsOr(outcome.message, "Request failed (500)")

\* assistantMessage built with the confidence left out
AssistantMessageWithoutConfidence(data) ==
  NewMessage("assistant", data.answer, "regular")

\* const assistantMessage: Message = { ... }
AssistantMessage(data) ==
  [NewMessage("assistant", data.answer, "regular") EXCEPT
     !.confidence = data.confidence]

\* the rest of sendStandardMessage once fetch has settled, and the rest of
\* the sendMessage awaiting it
StandardSettles(j, outcome) ==
  /\ j \in DOMAIN standardCalls
  /\ standardCalls[j].status = "pending"
  /\ standardCalls' = [standardCalls EXCEPT
       ![j].status = "settled",
       ![j].response = outcome,
       ![j].reason = IF outcome.kind = "ok" THEN Undef
                     ELSE StandardFailure(outcome)]
  /\ isLoading' = FALSE
  /\ IF outcome.kind = "ok"
     THEN /\ messages' = AddMessage(messages, AssistantMessage(outcome))
          /\ remainingQuota' = IF outcome.remainingQuota # Undef
                               THEN outcome.remainingQuota ELSE remainingQuota
          /\ UNCHANGED error
     ELSE /\ error' = JsOr(StandardFailure(outcome), "Failed to send message")
          /\ UNCHANGED <<messages, remainingQuota>>
  /\ UNCHANGED <<researchMessages, isResearchMode, articleContext, auth, mounts, authRequired,
                 turns, deepers, wireVars>>
  /\ Saved

\* sendStreamingMessage(question) called on its own
SendStreamingMessage ==
  /\ articleContext
  /\ Calls < MaxCalls
  /\ LET started == StartStream("direct", researchMessages, researchMessages,
                                Len(turns) + 1,
                                RequestHeaders(auth.token, storage))
     IN /\ researchMessages' = started.rm
        /\ turns' = Append(turns, started.turn)
  /\ UNCHANGED <<messages, isResearchMode, articleContext, auth, mounts, authRequired,
                 remainingQuota, isLoading, error, standardCalls, deepers, wireVars>>
  /\ SavedWithClientId

\* the context an operation of turn i works on
Ctx(i) == [rm |-> researchMessages, quota |-> remainingQuota, t |-> turns[i]]

\* the state after an operation of turn i that ends in context c
Commit(i, c) ==
  /\ researchMessages' = c.rm
  /\ remainingQuota' = c.quota
  /\ turns' = [turns EXCEPT ![i] = c.t]
  /\ Continuation(turns[i], c.t)
  /\ UNCHANGED <<messages, isResearchMode, articleContext, auth, mounts, authRequired, standardCalls,
                 deepers>>
  /\ Saved

\* fetch(...) of the stream request settles; body is the text of a
\* non-success response: "data: {message}" stands for a data: line whose
\* JSON has a message, "data: {}" for one without, "data: {bad}" for one
\* that is no JSON, "other" for a text without a data: line
FetchOutcomes ==
  {[kind |-> "rejects"], [kind |-> "nobody"], [kind |-> "ok"],
   [kind |-> "notok", body |-> "data: {message}"],
   [kind |-> "notok", body |-> "data: {}"],
   [kind |-> "notok", body |-> "data: {bad}"],
   [kind |-> "notok", body |-> "other"]}

\* the message of the error the .then callback throws (or fetch rejected with)
FetchFailure(outcome) ==
  CASE outcome.kind = "rejects" -> "Failed to fetch"
    [] outcome.kind = "nobody"  -> "Stream not available"
    [] outcome.kind = "notok" ->
         CASE outcome.body = "data: {message}" -> "server says no"
           [] outcome.body = "data: {bad}"     -> "Unexpected token b in JSON"
           [] OTHER                            -> "Server error (500)"

FetchSettles(i, outcome) ==
  /\ i \in DOMAIN turns
  /\ turns[i].phase = "fetching"
  /\ IF outcome.kind = "ok"
     THEN Commit(i, [Ctx(i) EXCEPT !.t.phase = "reading", !.t.response = outcome])
     ELSE Commit(i, Reject([Ctx(i) EXCEPT !.t.phase = "failed",
                                          !.t.response = outcome],
                           FetchFailure(outcome)))
  /\ UNCHANGED wireVars

\* reader.read() resolves with a chunk
ReadChunk(i, value) ==
  /\ i \in DOMAIN turns
  /\ turns[i].phase = "reading"
  /\ turns[i].reads < MaxReads
  /\ Commit(i, FeedChunk([Ctx(i) EXCEPT !.t.reads = @ + 1], value))
  /\ UNCHANGED wireVars

\* ReadDone with the leftover of partialLine handed to processLine before the
\* loop is left
ReadDoneDecodesLeftover(i) ==
  /\ i \in DOMAIN turns
  /\ turns[i].phase = "reading"
  /\ LET c == ProcessLines([Ctx(i) EXCEPT !.t.phase = "closed"],
                           Handed(<<turns[i].partialLine>>))
     IN Commit(i, IF ~c.t.receivedDone
                  THEN Patch(c, [isStreaming |-> "false"])
                  ELSE c)
  /\ UNCHANGED wireVars

\* reader.read() resolves with done: true
ReadDone(i) ==
  /\ i \in DOMAIN turns
  /\ turns[i].phase = "reading"
  /\ LET c == [Ctx(i) EXCEPT !.t.phase = "closed"]
     IN Commit(i, IF ~c.t.receivedDone
                  THEN Patch(c, [isStreaming |-> "false"])
                  ELSE c)
  /\ UNCHANGED wireVars

\* reader.read() rejects
ReadThrows(i) ==
  /\ i \in DOMAIN turns
  /\ turns[i].phase = "reading"
  /\ Commit(i, Reject(Patch([Ctx(i) EXCEPT !.t.phase = "broken"],
                            [isStreaming |-> "false"]),
                      "network error"))
  /\ UNCHANGED wireVars

\* clearMessages(true): setResearchMessages([]) and removeItem
ClearResearch ==
  /\ researchMessages # <<>>
  /\ researchMessages' = <<>>
  /\ storage' = [storage EXCEPT ![ResearchKey] = <<>>]
  /\ UNCHANGED <<messages, isResearchMode, articleContext, auth, mounts, authRequired,
                 remainingQuota, isLoading, error, turns, standardCalls, deepers,
                 wireVars>>

\* ------------------------------------------------------------ deeper analysis
\* One call of requestDeeperAnalysis(messageIndex).  phase is "ignored" for a
\* call that returned at once, else as for a turn.  eventsHandled, lastEvent
\* and lastData record the data lines that reached the if-chain of processLine,
\* response what fetch settled with; no operation reads them.
NewDeeper(messageIndex, sessionId, phase) ==
  [messageIndex   |-> messageIndex,
   request        |-> IF phase = "ignored" THEN Undef
                      ELSE [sessionId |-> sessionId],
   headers        |-> IF phase = "ignored" THEN Undef
                      ELSE DeeperHeaders(auth.token),
   phase          |-> phase,
   decoderPending |-> <<>>,
   partialLine    |-> <<>>,
   eventBuffer    |-> <<>>,
   promise        |-> IF phase = "ignored" THEN "resolved" ELSE "pending",
   reason         |-> Undef,
   reads          |-> 0,
   eventsHandled  |-> 0,
   lastEvent      |-> <<>>,
   lastData       |-> Undef,
   response       |-> NoResponse]

\* the test of requestDeeperAnalysis with the token left out
DeeperAcceptedWithoutToken(snapshot, messageIndex, token) ==
  /\ messageIndex + 1 \in DOMAIN snapshot
  /\ snapshot[messageIndex + 1].sessionId \notin {Undef, Empty}

\* the negation of: if (!message?.sessionId || !auth.token) return
DeeperAccepted(snapshot, messageIndex, token) ==
  /\ messageIndex + 1 \in DOMAIN snapshot
  /\ snapshot[messageIndex + 1].sessionId \notin {Undef, Empty}
  /\ token \notin {Undef, Empty}

\* updateMessage(messageIndex, updates, true) of a deeper call
DeeperPatch(c, updates) ==
  [c EXCEPT !.rm = UpdateMessage(c.rm, c.t.messageIndex, updates)]

\* DeeperDispatch with the call resolved as soon as the analysis arrived
DeeperDispatchAnalysisSettles(c, eventType, data) ==
  LET seen == [c EXCEPT !.t.eventsHandled = @ + 1,
                        !.t.lastEvent = eventType,
                        !.t.lastData = data]
  IN CASE eventType = <<"analysis">> ->
            IF data = JsNull THEN seen
            ELSE Resolve(DeeperPatch(seen,
                   [deeperAnalysis  |-> JsOr(data.analysis, Empty),
                    isLoadingDeeper |-> "false"]))
       [] eventType = <<"done">> ->
            LET c1 == DeeperPatch(seen, [isLoadingDeeper |-> "false"])
            IN IF data = JsNull THEN c1 ELSE Resolve(PropagateQuota(c1, data))
       [] eventType = <<"error">> ->
            LET c1 == DeeperPatch(seen, [isLoadingDeeper |-> "false",
                                         canGoDeeper     |-> "true"])
            IN IF data = JsNull THEN c1
               ELSE Reject(c1, IF data.message = Undef THEN Empty
                               ELSE data.message)
       [] OTHER -> seen

\* the if-chain of processLine of requestDeeperAnalysis; reading a property
\* of null throws a TypeError, which the catch swallows: before the patch for
\* analysis (its argument reads data.analysis), after it for done and error
DeeperDispatch(c, eventType, data) ==
  LET seen == [c EXCEPT !.t.eventsHandled = @ + 1,
                        !.t.lastEvent = eventType,
                        !.t.lastData = data]
  IN CASE eventType = <<"analysis">> ->
            IF data = JsNull THEN seen
            ELSE DeeperPatch(seen, [deeperAnalysis  |-> JsOr(data.analysis, Empty),
                                    isLoadingDeeper |-> "false"])
       [] eventType = <<"done">> ->
            LET c1 == DeeperPatch(seen, [isLoadingDeeper |-> "false"])
            IN IF data = JsNull THEN c1 ELSE Resolve(PropagateQuota(c1, data))
       [] eventType = <<"error">> ->
            LET c1 == DeeperPatch(seen, [isLoadingDeeper |-> "false",
                                         canGoDeeper     |-> "true"])
            IN IF data = JsNull THEN c1
               ELSE Reject(c1, IF data.message = Undef THEN Empty
                               ELSE data.message)
       [] OTHER -> seen

\* processLine of requestDeeperAnalysis
DeeperProcessLine(c, line) ==
  IF StartsWith(line, EventPrefix)
  THEN [c EXCEPT !.t.eventBuffer = Trim(Substring(line, Len(EventPrefix)))]
  ELSE IF StartsWith(line, DataPrefix)
       THEN LET eventType == c.t.eventBuffer
                parsed == JsonParse(Substring(line, Len(DataPrefix)))
                handled == IF parsed.ok
                           THEN DeeperDispatch(c, eventType, parsed.value)
                           ELSE c
            IN [handled EXCEPT !.t.eventBuffer = <<>>]
       ELSE c

RECURSIVE DeeperProcessLines(_, _)
DeeperProcessLines(c, lines) ==
  IF lines = <<>> THEN c
  ELSE DeeperProcessLines(DeeperProcessLine(c, Head(lines)), Tail(lines))

\* the body of the read loop of requestDeeperAnalysis for one chunk
DeeperFeedChunk(c, value) ==
  LET fr == Frame(c.t.decoderPending, c.t.partialLine, value)
      c1 == [c EXCEPT !.t.decoderPending = fr.decoderPending,
                      !.t.partialLine = fr.partialLine]
  IN DeeperProcessLines(c1, Handed(fr.lines))

\* what one read of the body of a deeper response may deliver
DeeperChunks ==
  {Event("analysis", Analysis), Event("done", Quota0), Event("done", Null),
   Event("error", Boom), Event("error", NoMembers)}

\* requestDeeperAnalysis(messageIndex): called from a click, so the
\* researchMessages it closed over is the track as rendered
RequestDeeperAnalysis(messageIndex) ==
  /\ Calls < MaxCalls
  /\ IF DeeperAccepted(researchMessages, messageIndex, auth.token)
     THEN /\ researchMessages' =
               UpdateMessage(researchMessages, messageIndex,
                             [isLoadingDeeper |-> "true", canGoDeeper |-> "false"])
          /\ deepers' = Append(deepers,
               NewDeeper(messageIndex,
                         researchMessages[messageIndex + 1].sessionId, "fetching"))
     ELSE /\ deepers' = Append(deepers, NewDeeper(messageIndex, Undef, "ignored"))
          /\ UNCHANGED researchMessages
  /\ UNCHANGED <<messages, isResearchMode, articleContext, auth, mounts, authRequired, remainingQuota,
                 isLoading, error, turns, standardCalls, wireVars>>
  /\ Saved

\* the context an operation of deeper call k works on
DeeperCtx(k) == [rm |-> researchMessages, quota |-> remainingQuota, t |-> deepers[k]]

\* the state after an operation of deeper call k that ends in context c;
\* nothing awaits the promise (onGoDeeper={requestDeeperAnalysis})
DeeperCommit(k, c) ==
  /\ researchMessages' = c.rm
  /\ remainingQuota' = c.quota
  /\ deepers' = [deepers EXCEPT ![k] = c.t]
  /\ UNCHANGED <<messages, isResearchMode, articleContext, auth, mounts, authRequired, isLoading,
                 error, turns, standardCalls, wireVars>>
  /\ Saved

\* what the deeper endpoint may answer: fetch rejecting, a response without
\* body, a stream, or a non-success status whose body has a message or not
DeeperFetchOutcomes ==
  {[kind |-> "rejects"], [kind |-> "nobody"], [kind |-> "ok"],
   [kind |-> "notok", message |-> "quota exceeded"],
   [kind |-> "notok", message |-> Undef]}

\* the message of the error the .then callback throws (or fetch rejected with)
DeeperFetchFailure(outcome) ==
  CASE outcome.kind = "rejects" -> "Failed to fetch"
    [] outcome.kind = "nobody"  -> "Stream not available"
    [] outcome.kind = "notok"   -> "Request failed (500)"

\* fetch(...) of the deeper request settles; a failure reaches .catch
DeeperFetchSettles(k, outcome) ==
  /\ k \in DOMAIN deepers
  /\ deepers[k].phase = "fetching"
  /\ IF outcome.kind = "ok"
     THEN DeeperCommit(k, [DeeperCtx(k) EXCEPT !.t.phase = "reading",
                                               !.t.response = outcome])
     ELSE DeeperCommit(k,
            Reject(DeeperPatch([DeeperCtx(k) EXCEPT !.t.phase = "failed",
                                                    !.t.response = outcome],
                               [isLoadingDeeper |-> "false", canGoDeeper |-> "true"]),
                   DeeperFetchFailure(outcome)))

\* reader.read() resolves with a chunk
DeeperReadChunk(k, value) ==
  /\ k \in DOMAIN deepers
  /\ deepers[k].phase = "reading"
  /\ deepers[k].reads < MaxReads
  /\ DeeperCommit(k, DeeperFeedChunk([DeeperCtx(k) EXCEPT !.t.reads = @ + 1], value))

\* reader.read() resolves with done: true: the loop breaks
DeeperReadDone(k) ==
  /\ k \in DOMAIN deepers
  /\ deepers[k].phase = "reading"
  /\ DeeperCommit(k, [DeeperCtx(k) EXCEPT !.t.phase = "closed"])

\* reader.read() rejects: readStream() is not awaited and has no catch, so
\* the rejection reaches neither .catch nor the promise of the call
DeeperReadThrows(k) ==
  /\ k \in DOMAIN deepers
  /\ deepers[k].phase = "reading"
  /\ DeeperCommit(k, [DeeperCtx(k) EXCEPT !.t.phase = "broken"])

Next ==
  \/ SetIsResearchMode
  \/ \E content \in Contents : SendMessageIgnored(content)
  \/ \E content \in Contents : SendMessageStandard(content)
  \/ \E j \in 1..MaxCalls, outcome \in StandardOutcomes : StandardSettles(j, outcome)
  \/ \E content \in Contents : SendMessageResearch(content)
  \/ SendStreamingMessage
  \/ \E i \in 1..MaxCalls, outcome \in FetchOutcomes : FetchSettles(i, outcome)
  \/ \E i \in 1..MaxCalls, value \in Chunks : ReadChunk(i, value)
  \/ \E i \in 1..MaxCalls : ReadDone(i)
  \/ \E i \in 1..MaxCalls : ReadThrows(i)
  \/ ClearResearch
  \/ \E messageIndex \in 0..(2 * MaxCalls) : RequestDeeperAnalysis(messageIndex)
  \/ \E k \in 1..MaxCalls, outcome \in DeeperFetchOutcomes : DeeperFetchSettles(k, outcome)
  \/ \E k \in 1..MaxCalls, value \in DeeperChunks : DeeperReadChunk(k, value)
  \/ \E k \in 1..MaxCalls : DeeperReadDone(k)
  \/ \E k \in 1..MaxCalls : DeeperReadThrows(k)

Spec == Init /\ [][Next]_vars

\* ------------------------------------------------------------ one body
\* WireSpec follows a single research stream whose response body is fixed
\* from the start and arrives cut into chunks in every possible way.

\* longest body made of arbitrary bytes
MaxWire == 4

WireBytes == {"x", " ", NL, LeadByte, ContByte}

\* the events a body is made of: each event type with the payload the
\* backend sends for it, with an empty object, with null and cut short, and
\* payloads under a type they do not belong to
WireEvents ==
  {Event("connected", NoMembers),
   Event("outline", Outline), Event("outline", NoMembers),
   Event("status", Thinking), Event("status", NoMembers),
   Event("answer", Answer), Event("answer", NoMembers), Event("answer", Null),
   Event("done", DoneS1), Event("done", DoneS2), Event("done", NoMembers),
   Event("done", Null), Event("done", Truncated),
   Event("error", Boom), Event("error", NoMembers), Event("error", Null),
   DataLine(DoneS1), EventLine("done")}

\* bodies with a line that has neither prefix after an event: line: a line
\* of other text before the data: line, and a data: line written without
\* the space
WireMixed ==
  {EventLine("done") \o <<"x", NL>> \o DataLine(DoneS1),
   EventLine("done") \o <<"data:">> \o DoneS1 \o <<NL>>}

\* bodies whose last line has no newline after it: a done event alone and
\* after a status event
WireUnterminated ==
  {EventLine("done") \o DataPrefix \o DoneS1,
   Event("status", Thinking) \o EventLine("done") \o DataPrefix \o DoneS1}

\* the bodies: arbitrary bytes, one event, two events, the mixed and the
\* unterminated ones
WireBodies ==
  UNION {[1..n -> WireBytes] : n \in 0..MaxWire}
    \cup WireEvents
    \cup {e1 \o e2 : e1 \in WireEvents, e2 \in WireEvents}
    \cup WireMixed
    \cup WireUnterminated

\* the length of the longest body
WireLongest ==
  CHOOSE n \in {Len(b) : b \in WireBodies} : \A b \in WireBodies : Len(b) <= n

\* the research track and the turn once sendMessage (or a direct call of
\* sendStreamingMessage) on an empty track has had its response
WireStart(caller) ==
  LET current == IF caller = "sendMessage"
                 THEN AddMessage(<<>>, NewMessage("user", "Hello", "research"))
                 ELSE <<>>
      started == StartStream(caller, <<>>, current, 1,
                             RequestHeaders("jwt", NoItems))
  IN [rm |-> started.rm, quota |-> "null",
      t |-> [started.turn EXCEPT !.phase = "reading"]]

WireInit ==
  /\ messages = <<>>
  /\ isResearchMode = TRUE
  /\ articleContext = TRUE
  /\ auth = [isAuthenticated |-> TRUE, token |-> "jwt"]
  /\ remainingQuota = "null"
  /\ error = "null"
  /\ standardCalls = <<>>
  /\ deepers = <<>>
  /\ \E caller \in {"sendMessage", "direct"} :
       /\ researchMessages = WireStart(caller).rm
       /\ turns = <<WireStart(caller).t>>
       /\ isLoading = (caller = "sendMessage")
       /\ storage = SaveEffect(ResearchKey, WireStart(caller).rm,
                               WithClientId(NoItems))
  /\ mounts = 1
  /\ authRequired = <<>>
  /\ wire \in WireBodies
  /\ delivered = <<>>
  /\ handed = <<>>
  /\ spans = {}

\* reader.read() resolves with the next k bytes of the body
ReadWire(k) ==
  /\ turns[1].phase = "reading"
  /\ k \in 1..Len(wire)
  /\ LET value == SubSeq(wire, 1, k)
         fr == Frame(turns[1].decoderPending, turns[1].partialLine, value)
     IN /\ Commit(1, FeedChunk(Ctx(1), value))
        /\ wire' = SubSeq(wire, k + 1, Len(wire))
        /\ delivered' = delivered \o value
        /\ handed' = handed \o Handed(fr.lines)
        /\ spans' = spans
             \cup (IF fr.lines # <<>>
                       /\ turns[1].partialLine \o turns[1].decoderPending # <<>>
                    THEN {"line"} ELSE {})
             \cup (IF /\ turns[1].eventBuffer # <<>>
                       /\ Handed(fr.lines) # <<>>
                       /\ StartsWith(Head(Handed(fr.lines)), DataPrefix)
                    THEN {"pair"} ELSE {})

\* reader.read() resolves with done: true after the last byte
WireReadDone ==
  /\ wire = <<>>
  /\ ReadDone(1)

\* reader.read() rejects
WireReadThrows ==
  /\ ReadThrows(1)

WireNext ==
  \/ \E k \in 1..WireLongest : ReadWire(k)
  \/ WireReadDone
  \/ WireReadThrows

WireSpec == WireInit /\ [][WireNext]_vars

\* ------------------------------------------------------------ the widget
\* WidgetSpec is the core as ChatbotWidget drives it: every send goes through
\* handleSend, and the widget neither calls sendStreamingMessage itself nor
\* clears a track.

\* the toggle of the widget header, rendered when there is an article context
ToggleResearchMode ==
  /\ articleContext
  /\ SetIsResearchMode

\* the sends of the widget: sendMessage(input)
WidgetSend(input) ==
  \/ SendMessageIgnored(input)
  \/ SendMessageStandard(input)
  \/ SendMessageResearch(input)

\* a handleSend that returned at once, noted on the turns it found pending
SendRefused(input) ==
  /\ turns' = [i \in DOMAIN turns |->
                 IF turns[i].promise = "pending" /\ StrTrim(input) # Empty
                 THEN [turns[i] EXCEPT !.sendRefused = TRUE]
                 ELSE turns[i]]
  /\ UNCHANGED <<messages, researchMessages, isResearchMode, articleContext,
                 auth, storage, mounts, authRequired,
                 remainingQuota, isLoading, error, standardCalls, deepers, wireVars>>

\* handleSend without the test of isLoading
HandleSendWhileLoading(input) ==
  IF StrTrim(input) = Empty
  THEN SendRefused(input)
  ELSE WidgetSend(input)

\* handleSend: if (!input.trim() || isLoading) return; sendMessage(input)
HandleSend(input) ==
  IF StrTrim(input) = Empty \/ isLoading
  THEN SendRefused(input)
  ELSE WidgetSend(input)

WidgetNext ==
  \/ ToggleResearchMode
  \/ \E input \in Contents : HandleSend(input)
  \/ \E j \in 1..MaxCalls, outcome \in StandardOutcomes : StandardSettles(j, outcome)
  \/ \E i \in 1..MaxCalls, outcome \in FetchOutcomes : FetchSettles(i, outcome)
  \/ \E i \in 1..MaxCalls, value \in Chunks : ReadChunk(i, value)
  \/ \E i \in 1..MaxCalls : ReadDone(i)
  \/ \E i \in 1..MaxCalls : ReadThrows(i)

WidgetSpec == Init /\ [][WidgetNext]_vars

\* every backend answer ends: a pending fetch settles (with a response or a
\* rejection), and the body of a stream that is being read ends, by
\* reader.read() reporting done or rejecting; chunks may or may not come first
TransportEnds ==
  /\ \A j \in 1..MaxCalls :
       WF_vars(\E outcome \in StandardOutcomes : StandardSettles(j, outcome))
  /\ \A i \in 1..MaxCalls :
       /\ WF_vars(\E outcome \in FetchOutcomes : FetchSettles(i, outcome))
       /\ WF_vars(ReadDone(i) \/ ReadThrows(i))

\* WidgetLiveSpec is WidgetSpec with a backend whose every answer ends
WidgetLiveSpec == Init /\ [][WidgetNext]_vars /\ TransportEnds

\* ------------------------------------------------------------ deeper calls
\* DeeperSpec is the page reloaded after one research turn was completed by a
\* done event: the provider hydrates the research track from localStorage, no
\* call is under way, and the host calls requestDeeperAnalysis.

\* the research track a turn on the empty track left once its stream, one
\* done event, was read
CompletedTrack(caller) == FeedChunk(WireStart(caller), Event("done", DoneS1)).rm

DeeperInit ==
  /\ messages = <<>>
  /\ isResearchMode = TRUE
  /\ articleContext = TRUE
  /\ auth \in AuthStates
  /\ remainingQuota = "null"
  /\ isLoading = FALSE
  /\ error = "null"
  /\ turns = <<>>
  /\ standardCalls = <<>>
  /\ deepers = <<>>
  /\ \E caller \in {"sendMessage", "direct"} :
       /\ storage = SaveEffect(ResearchKey, CompletedTrack(caller),
                               WithClientId(NoItems))
       /\ researchMessages = Hydrate(storage[ResearchKey])
  /\ mounts = 2
  /\ authRequired = <<>>
  /\ wire = <<>>
  /\ delivered = <<>>
  /\ handed = <<>>
  /\ spans = {}

DeeperNext ==
  \/ \E messageIndex \in 0..(2 * MaxCalls) : RequestDeeperAnalysis(messageIndex)
  \/ \E k \in 1..MaxCalls, outcome \in DeeperFetchOutcomes : DeeperFetchSettles(k, outcome)
  \/ \E k \in 1..MaxCalls, value \in DeeperChunks : DeeperReadChunk(k, value)
  \/ \E k \in 1..MaxCalls : DeeperReadDone(k)
  \/ \E k \in 1..MaxCalls : DeeperReadThrows(k)

DeeperSpec == DeeperInit /\ [][DeeperNext]_vars

\* ------------------------------------------------------------ the store
\* StoreSpec is ChatbotProvider on its own: components append to, patch and
\* clear the two tracks through the context, and the page is reloaded, which
\* mounts a new provider over the localStorage the old one left.

\* the messages components append: a user message, the placeholder of a
\* research turn, the reply of a standard request; created at different times
StoreMessages ==
  {[NewMessage("user", "Hello", "regular") EXCEPT !.timestamp = [time |-> 999]],
   [NewMessage("assistant", Empty, "research") EXCEPT
      !.isStreaming = "true",
      !.streamingStatus = "Analyzing article...",
      !.timestamp = [time |-> 1500]],
   [NewMessage("assistant", "Hi!", "regular") EXCEPT
      !.confidence = "0.9",
      !.timestamp = [time |-> 2000]]}

\* the updates components patch with
StoreUpdates ==
  {[isStreaming |-> "false", streamingStatus |-> Undef],
   [content |-> "A1", model |-> "m1"]}

StoreInit ==
  /\ messages = <<>>
  /\ researchMessages = <<>>
  /\ isResearchMode = FALSE
  /\ articleContext = FALSE
  /\ auth = [isAuthenticated |-> FALSE, token |-> Undef]
  /\ remainingQuota = "null"
  /\ isLoading = FALSE
  /\ error = "null"
  /\ turns = <<>>
  /\ standardCalls = <<>>
  /\ deepers = <<>>
  /\ storage = NoItems
  /\ mounts = 1
  /\ authRequired = <<>>
  /\ wire = <<>>
  /\ delivered = <<>>
  /\ handed = <<>>
  /\ spans = {}

\* what no operation of the provider's store changes
StoreFrame ==
  UNCHANGED <<isResearchMode, articleContext, auth, remainingQuota, isLoading,
              error, turns, standardCalls, deepers, authRequired, wireVars>>

\* addMessage(message, isResearch) and the save effect
StoreAddMessage(message, isResearch) ==
  /\ Len(messages) + Len(researchMessages) < MaxStored
  /\ IF isResearch
     THEN /\ researchMessages' = AddMessage(researchMessages, message)
          /\ UNCHANGED messages
     ELSE /\ messages' = AddMessage(messages, message)
          /\ UNCHANGED researchMessages
  /\ UNCHANGED mounts
  /\ StoreFrame
  /\ Saved

\* updateMessage(index, updates, isResearch) and the save effect
StoreUpdateMessage(index, updates, isResearch) ==
  /\ IF isResearch
     THEN /\ researchMessages' = UpdateMessage(researchMessages, index, updates)
          /\ UNCHANGED messages
     ELSE /\ messages' = UpdateMessage(messages, index, updates)
          /\ UNCHANGED researchMessages
  /\ UNCHANGED mounts
  /\ StoreFrame
  /\ Saved

\* clearMessages(isResearch)
StoreClearMessages(isResearch) ==
  /\ IF isResearch
     THEN /\ researchMessages' = <<>>
          /\ storage' = [storage EXCEPT ![ResearchKey] = <<>>]
          /\ UNCHANGED messages
     ELSE /\ messages' = <<>>
          /\ storage' = [storage EXCEPT ![MessagesKey] = <<>>]
          /\ UNCHANGED researchMessages
  /\ UNCHANGED mounts
  /\ StoreFrame

\* the page is reloaded: a new provider starts with empty tracks, its mount
\* effect sets them from localStorage, and the save effects run on the result
Remount ==
  /\ mounts < MaxMounts
  /\ mounts' = mounts + 1
  /\ messages' = Hydrate(storage[MessagesKey])
  /\ researchMessages' = Hydrate(storage[ResearchKey])
  /\ StoreFrame
  /\ Saved

StoreNext ==
  \/ \E message \in StoreMessages, isResearch \in BOOLEAN :
       StoreAddMessage(message, isResearch)
  \/ \E index \in 0..MaxStored, updates \in StoreUpdates, isResearch \in BOOLEAN :
       StoreUpdateMessage(index, updates, isResearch)
  \/ \E isResearch \in BOOLEAN : StoreClearMessages(isResearch)
  \/ Remount

StoreSpec == StoreInit /\ [][StoreNext]_vars

\* ------------------------------------------------------------ properties
\* the placeholder message of turn i, where it still is in the research track
Placeholders(i) ==
  {k \in DOMAIN researchMessages : researchMessages[k].placeholderOf = i}

\* C1: in a turn started through sendMessage, every patch made for an event
\* of the stream lands on the placeholder that sendStreamingMessage appended,
\* never on another message of the research track.
C1_PatchesLandOnPlaceholder ==
  \A i \in DOMAIN turns :
    turns[i].caller = "sendMessage" =>
      turns[i].patchedAt \subseteq {turns[i].placeholderAt}

\* C2: once a done event was handled, the bound message has isStreaming =
\* false, and no event that follows in the same stream changes the message.
C2_DoneIsFinal ==
  \A i \in DOMAIN turns :
    turns[i].afterDone =>
      /\ \A k \in Placeholders(i) : researchMessages[k].isStreaming = "false"
      /\ ~turns[i].changedAfterDone

\* C3: when the reader reports the end of the body and neither a done nor an
\* error event was handled, the bound message has isStreaming = false and the
\* promise of the turn is resolved.
C3_SilentCloseResolves ==
  \A i \in DOMAIN turns :
    (turns[i].phase = "closed" /\ ~turns[i].afterDone /\ ~turns[i].afterError) =>
      /\ \A k \in Placeholders(i) : researchMessages[k].isStreaming = "false"
      /\ turns[i].promise = "resolved"

\* C4: once an error event was handled, the turn is rejected with the message
\* of the payload or with 'Stream error', and nothing patches the bound
\* message any more, neither a later event nor the end of the stream.
C4_ErrorIsTerminal ==
  \A i \in DOMAIN turns :
    turns[i].afterError =>
      /\ turns[i].promise = "rejected"
      /\ turns[i].reason \in {"boom", "Stream error"}
      /\ ~turns[i].patchedAfterError

\* C5: when the request fails before any event is read (fetch rejects, the
\* status is not a success, the response has no body), the turn is rejected
\* and its placeholder has isStreaming = false.
C5_TransportFailureResets ==
  \A i \in DOMAIN turns :
    turns[i].phase = "failed" =>
      /\ turns[i].promise = "rejected"
      /\ \A k \in Placeholders(i) : researchMessages[k].isStreaming = "false"

\* C6: when a read of the stream throws, the bound message has isStreaming =
\* false and the turn is rejected with the error of the read.
C6_ReadErrorRejects ==
  \A i \in DOMAIN turns :
    turns[i].phase = "broken" =>
      /\ \A k \in Placeholders(i) : researchMessages[k].isStreaming = "false"
      /\ turns[i].promise = "rejected"
      /\ turns[i].reason = "network error"

\* C7: however the body is cut into chunks, the lines handed to processLine
\* so far are the lines the framer yields for the bytes read so far when it
\* is given them as a single chunk.
C7_ChunkingKeepsLines ==
  handed = Handed(Frame(<<>>, <<>>, delivered).lines)

\* C7 witness: a body of at least two lines has been read to its end, one of
\* its lines having arrived in two chunks.
C7_LineSpannedChunks ==
  /\ "line" \in spans
  /\ Len(handed) >= 2
  /\ wire = <<>>

\* C8: while the stream is being read, the turn (pending event type, promise,
\* flags) and the research track are what reading the same bytes as one chunk
\* produces; so an event: line and its data: line that arrive in different
\* chunks, or cut inside a line, decode to the same event and patch as the
\* pair arriving whole.
C8_SplitPairDecodesAlike ==
  turns[1].phase = "reading" =>
    LET whole == FeedChunk(WireStart(turns[1].caller), delivered)
    IN /\ turns[1] = whole.t
       /\ researchMessages = whole.rm
       /\ remainingQuota = whole.quota

\* C8 witness: a done event whose event: line and data: line came in different
\* reads, one line itself cut by a chunk boundary, has been decoded and its
\* patch merged.
C8_PairSpannedChunks ==
  /\ spans = {"line", "pair"}
  /\ delivered = Event("done", DoneS1)
  /\ wire = <<>>
  /\ turns[1].promise = "resolved"
  /\ \E k \in DOMAIN researchMessages : researchMessages[k].sessionId = "s1"

\* C9: a stream of a status event followed by a done event with sessionId s1
\* and canGoDeeper true leaves the bound assistant message with isStreaming
\* false, no streamingStatus, sessionId s1, canGoDeeper true, confidence 85
\* and route research, and the turn resolved.
C9_StatusThenDone ==
  (delivered = Event("status", Thinking) \o Event("done", DoneS1)) =>
    /\ turns[1].promise = "resolved"
    /\ Placeholders(1) # {}
    /\ \A k \in Placeholders(1) :
         /\ researchMessages[k].role = "assistant"
         /\ researchMessages[k].isStreaming = "false"
         /\ researchMessages[k].streamingStatus = Undef
         /\ researchMessages[k].sessionId = "s1"
         /\ researchMessages[k].canGoDeeper = "true"
         /\ researchMessages[k].confidence = "85"
         /\ researchMessages[k].route = "research"

\* C10: a sessionId is only ever on an assistant message, and a message that
\* has a sessionId keeps that sessionId in every step.
C10_SessionIdStable ==
  [][\A k \in DOMAIN researchMessages' :
       /\ researchMessages'[k].sessionId # Undef =>
            researchMessages'[k].role = "assistant"
       /\ (k \in DOMAIN researchMessages /\ researchMessages[k].sessionId # Undef) =>
            researchMessages'[k].sessionId = researchMessages[k].sessionId]_vars

\* the turns that completed with a done event carrying a sessionId and whose
\* placeholder is still in the research track
CompletedWithSession ==
  {j \in DOMAIN turns :
     /\ turns[j].promise = "resolved"
     /\ turns[j].doneSessionId \notin {Undef, Empty}
     /\ Placeholders(j) # {}}

\* C11: in the step that starts a research turn: when an earlier turn of the
\* track completed with a done event carrying a sessionId, the new placeholder
\* starts with 'Generating response...' and the request carries the sessionId
\* of the most recent assistant message that has one and no articleContext;
\* when no assistant message of the track has a sessionId, the placeholder
\* starts with 'Analyzing article...' and the request carries the
\* articleContext and no sessionId.
C11_FollowUpCarriesSession ==
  [][Len(turns') = Len(turns) + 1 =>
       LET new == turns'[Len(turns')]
           placeholder == researchMessages'[new.placeholderAt + 1]
           s == ExistingSessionId(researchMessages)
       IN /\ CompletedWithSession # {} =>
               /\ placeholder.streamingStatus = "Generating response..."
               /\ s # Undef
               /\ new.request.sessionId = s
               /\ ~new.request.articleContext
          /\ s = Undef =>
               /\ placeholder.streamingStatus = "Analyzing article..."
               /\ new.request.sessionId = Undef
               /\ new.request.articleContext]_vars

\* C12: a step of a turn (an event, the end of the body, a read error) whose
\* messageIndex is at or beyond the length of the research track, the empty
\* track included, leaves the track as it was: updateMessage on such an index
\* changes neither the length nor the content.
C12_StalePatchIsNoOp ==
  [][\A i \in DOMAIN turns :
       (turns'[i] # turns[i] /\ turns[i].messageIndex >= Len(researchMessages)) =>
         researchMessages' = researchMessages]_vars

\* C12 witness: a done event was handled by a turn whose messageIndex is no
\* index of the track any more, and its patch found no message.
C12_PatchedBeyondLength ==
  \E i \in DOMAIN turns :
    /\ turns[i].afterDone
    /\ turns[i].patchMissed
    /\ turns[i].messageIndex >= Len(researchMessages)

\* C13: a call of requestDeeperAnalysis on an index with no message, on a
\* message without sessionId, or without an auth token makes no request,
\* changes no message of either track and returns without error (its promise
\* is resolved).
C13_DeeperRefusedIsNoOp ==
  [][Len(deepers') = Len(deepers) + 1 =>
       LET d == deepers'[Len(deepers')]
           at == d.messageIndex + 1
           refused == \/ at \notin DOMAIN researchMessages
                      \/ researchMessages[at].sessionId \in {Undef, Empty}
                      \/ auth.token \in {Undef, Empty}
       IN refused =>
            /\ d.phase = "ignored"
            /\ d.request = Undef
            /\ d.promise = "resolved"
            /\ researchMessages' = researchMessages
            /\ messages' = messages]_vars

\* C13 witness: requestDeeperAnalysis was called without a token on a message
\* that has a sessionId, and returned at once.
C13_RefusedWithoutToken ==
  \E k \in DOMAIN deepers :
    /\ deepers[k].phase = "ignored"
    /\ auth.token = Undef
    /\ deepers[k].messageIndex + 1 \in DOMAIN researchMessages
    /\ researchMessages[deepers[k].messageIndex + 1].sessionId = "s1"

\* C14: in the step in which the transport of a deeper call fails (fetch
\* rejects, the status is not a success, the response has no body, a read of
\* the opened stream throws), the call is rejected and the target message has
\* isLoadingDeeper = false and canGoDeeper = true.
C14_DeeperTransportFailureRestores ==
  [][\A k \in DOMAIN deepers :
       (deepers[k].phase \in {"fetching", "reading"}
          /\ deepers'[k].phase \in {"failed", "broken"}) =>
         /\ deepers'[k].promise = "rejected"
         /\ deepers[k].messageIndex + 1 \in DOMAIN researchMessages' =>
              /\ researchMessages'[deepers[k].messageIndex + 1].isLoadingDeeper = "false"
              /\ researchMessages'[deepers[k].messageIndex + 1].canGoDeeper = "true"]_vars

\* C15: in the step that starts a deeper call the target message gets
\* isLoadingDeeper = true and canGoDeeper = false and the request carries its
\* sessionId; in the step that handles one event with an object payload: an
\* analysis event sets deeperAnalysis from the payload and isLoadingDeeper =
\* false and leaves the promise as it was; a done event sets isLoadingDeeper =
\* false, sets the remaining quota when the payload has one and resolves a
\* pending call; an error event sets isLoadingDeeper = false and canGoDeeper =
\* true and rejects a pending call with the message of the payload.
C15_DeeperTransitions ==
  [][\A k \in DOMAIN deepers' :
       LET new == deepers'[k]
           at == new.messageIndex + 1
           data == new.lastData
       IN /\ (k \notin DOMAIN deepers /\ new.phase # "ignored") =>
               /\ at \in DOMAIN researchMessages'
               /\ researchMessages'[at].isLoadingDeeper = "true"
               /\ researchMessages'[at].canGoDeeper = "false"
               /\ new.request.sessionId = researchMessages[at].sessionId
               /\ new.promise = "pending"
          /\ (/\ k \in DOMAIN deepers
              /\ new.eventsHandled = deepers[k].eventsHandled + 1
              /\ data # JsNull) =>
               CASE new.lastEvent = <<"analysis">> ->
                      /\ new.promise = deepers[k].promise
                      /\ new.phase = "reading"
                      /\ at \in DOMAIN researchMessages' =>
                           /\ researchMessages'[at].deeperAnalysis =
                                JsOr(data.analysis, Empty)
                           /\ researchMessages'[at].isLoadingDeeper = "false"
                 [] new.lastEvent = <<"done">> ->
                      /\ deepers[k].promise = "pending" => new.promise = "resolved"
                      /\ remainingQuota' = IF data.remainingQuota # Undef
                                           THEN data.remainingQuota
                                           ELSE remainingQuota
                      /\ at \in DOMAIN researchMessages' =>
                           researchMessages'[at].isLoadingDeeper = "false"
                 [] new.lastEvent = <<"error">> ->
                      /\ deepers[k].promise = "pending" =>
                           /\ new.promise = "rejected"
                           /\ new.reason = IF data.message = Undef THEN Empty
                                           ELSE data.message
                      /\ at \in DOMAIN researchMessages' =>
                           /\ researchMessages'[at].isLoadingDeeper = "false"
                           /\ researchMessages'[at].canGoDeeper = "true"
                 [] OTHER -> TRUE]_vars

\* C15 witness: a deeper call has handled an analysis event and then a done
\* event with a remaining quota, and is resolved.
C15_AnalysisThenDone ==
  \E k \in DOMAIN deepers :
    /\ deepers[k].promise = "resolved"
    /\ deepers[k].eventsHandled = 2
    /\ deepers[k].lastEvent = <<"done">>
    /\ remainingQuota = "0"
    /\ deepers[k].messageIndex + 1 \in DOMAIN researchMessages
    /\ researchMessages[deepers[k].messageIndex + 1].deeperAnalysis = "deep"
    /\ researchMessages[deepers[k].messageIndex + 1].isLoadingDeeper = "false"
    /\ researchMessages[deepers[k].messageIndex + 1].canGoDeeper = "false"

\* C16: 'Hello' sent in standard mode goes to the standard track as a user
\* message and leaves the research track alone; when the standard track holds
\* just that message and the backend answers success with answer 'Hi!' and
\* confidence 0.9, the standard track then holds exactly the user message
\* 'Hello' and one assistant message 'Hi!' with confidence 0.9 and mode
\* regular, and the research track is unchanged.
C16_HelloThenHi ==
  [][/\ (Len(standardCalls') = Len(standardCalls) + 1 /\ ~isResearchMode) =>
          /\ messages' = Append(messages, NewMessage("user", "Hello", "regular"))
          /\ researchMessages' = researchMessages
     /\ \A j \in DOMAIN standardCalls :
          (/\ standardCalls[j].status = "pending"
           /\ standardCalls'[j].status = "settled"
           /\ standardCalls'[j].response.kind = "ok"
           /\ ~standardCalls[j].isResearchMode
           /\ messages = <<NewMessage("user", "Hello", "regular")>>) =>
            /\ messages' =
                 <<NewMessage("user", "Hello", "regular"),
                   [NewMessage("assistant", "Hi!", "regular") EXCEPT
                      !.confidence = "0.9"]>>
            /\ researchMessages' = researchMessages]_vars

\* C16 witness: one standard send of 'Hello' has been answered with success
\* and the standard track holds the two messages.
C16_HelloAnswered ==
  /\ Len(standardCalls) = 1
  /\ standardCalls[1].status = "settled"
  /\ standardCalls[1].response.kind = "ok"
  /\ ~standardCalls[1].isResearchMode
  /\ Len(messages) = 2
  /\ messages[1].role = "user" /\ messages[1].content = "Hello"
  /\ messages[2].role = "assistant" /\ messages[2].content = "Hi!"
  /\ messages[2].confidence = "0.9"

\* the message the server supplied in the body of a non-success response of
\* the stream endpoint, Undef when the body has none
ServerMessage(outcome) ==
  IF outcome.body = "data: {message}" THEN "server says no" ELSE Undef

\* C19: in the step in which a request gets a non-success status, the message
\* of the failure is the message of the response body when the body has one,
\* else the status-coded fallback of that request (standard chat and deeper
\* analysis 'Request failed (500)', research stream 'Server error (500)');
\* and a failed standard request appends no message.
C19_ServerMessageOrFallback ==
  [][/\ \A j \in DOMAIN standardCalls :
          (standardCalls[j].status = "pending"
             /\ standardCalls'[j].status = "settled"
             /\ standardCalls'[j].response.kind = "notok") =>
            /\ standardCalls'[j].reason =
                 IF standardCalls'[j].response.message # Undef
                 THEN standardCalls'[j].response.message
                 ELSE "Request failed (500)"
            /\ messages' = messages
     /\ \A i \in DOMAIN turns :
          (turns[i].phase = "fetching" /\ turns'[i].response.kind = "notok") =>
            turns'[i].reason =
              IF ServerMessage(turns'[i].response) # Undef
              THEN ServerMessage(turns'[i].response)
              ELSE "Server error (500)"
     /\ \A k \in DOMAIN deepers :
          (deepers[k].phase = "fetching" /\ deepers'[k].response.kind = "notok") =>
            deepers'[k].reason =
              IF deepers'[k].response.message # Undef
              THEN deepers'[k].response.message
              ELSE "Request failed (500)"]_vars

\* C18: in the step in which a request sent by sendMessage fails while its
\* turn is pending (the standard request fails; the stream request fails
\* before the stream is opened, an error event is handled, or a read throws),
\* the turn is rejected, the top-level error slot is set to the message of
\* that failure, and no request is started.
C18_FailureReachesErrorSlot ==
  [][/\ \A j \in DOMAIN standardCalls :
          (standardCalls[j].status = "pending"
             /\ standardCalls'[j].status = "settled"
             /\ standardCalls'[j].response.kind # "ok") =>
            /\ standardCalls'[j].reason # Undef
            /\ error' = standardCalls'[j].reason
            /\ Calls' = Calls
     /\ \A i \in DOMAIN turns :
          (/\ turns[i].caller = "sendMessage"
           /\ turns[i].promise = "pending"
           /\ \/ turns'[i].phase \in {"failed", "broken"}
              \/ turns'[i].afterError /\ ~turns[i].afterError) =>
            /\ turns'[i].promise = "rejected"
            /\ turns'[i].reason \in
                 {"Failed to fetch", "Stream not available", "server says no",
                  "Unexpected token b in JSON", "Server error (500)", "boom",
                  "network error"}
            /\ error' = turns'[i].reason
            /\ Calls' = Calls]_vars

\* C18 witness: the only request, a research turn sent by sendMessage, was
\* rejected by an error event and the error slot holds the payload's message.
C18_ErrorEventInSlot ==
  /\ Calls = 1
  /\ Len(turns) = 1
  /\ turns[1].caller = "sendMessage"
  /\ turns[1].afterError
  /\ turns[1].promise = "rejected"
  /\ error = "boom"
  /\ ~isLoading

\* C20: with every send going through handleSend, at most one research turn
\* is in flight (its promise pending) at any time.
C20_OneTurnInFlight ==
  Cardinality({i \in DOMAIN turns : turns[i].promise = "pending"}) <= 1

\* C20 witness: a send was issued while the first research turn was in flight
\* and started nothing; after that turn settled, a second turn was started and
\* is in flight.
C20_SecondTurnAfterFirst ==
  /\ Len(turns) = 2
  /\ turns[1].sendRefused
  /\ turns[1].promise # "pending"
  /\ turns[2].promise = "pending"
  /\ turns[2].phase = "reading"

\* C17: a mount of the provider over the snapshots the previous one saved
\* gives both tracks the messages they had, in the same order, every field
\* with the same value and every timestamp the same instant.
C17_RemountReproducesTracks ==
  [][mounts' = mounts + 1 =>
       /\ messages' = messages
       /\ researchMessages' = researchMessages]_vars

\* C17 witness: the provider was mounted a second time over snapshots of two
\* non-empty tracks: a user message created at 999 ms and a patched
\* placeholder created at 1500 ms that has no streamingStatus any more.
C17_RemountedWithHistory ==
  /\ mounts = 2
  /\ Len(messages) = 1 /\ Len(researchMessages) = 1
  /\ messages[1].role = "user"
  /\ messages[1].timestamp = [time |-> 999]
  /\ researchMessages[1].timestamp = [time |-> 1500]
  /\ researchMessages[1].isStreaming = "false"
  /\ researchMessages[1].streamingStatus = Undef
  /\ storage[MessagesKey] # <<>> /\ storage[ResearchKey] # <<>>

\* C21: two calls in flight together (two research turns, or a research turn
\* and a deeper-analysis call, each with its promise pending) never address
\* the same index of the research track with their patches.
C21_TurnsPatchDistinctIndices ==
  /\ \A i, j \in DOMAIN turns :
       (i # j /\ turns[i].promise = "pending" /\ turns[j].promise = "pending") =>
         turns[i].messageIndex # turns[j].messageIndex
  /\ \A i \in DOMAIN turns, k \in DOMAIN deepers :
       (/\ turns[i].promise = "pending"
        /\ deepers[k].phase # "ignored"
        /\ deepers[k].promise = "pending") =>
         turns[i].messageIndex # deepers[k].messageIndex

\* C22: once the research track was cleared while a turn was in flight (its
\* placeholder is in the track no more), every message of the track was
\* appended after the clear, and a read of the old stream, whatever events it
\* brings, changes none of them.
C22_ClearedIndexNotReused ==
  [][\A i \in DOMAIN turns :
       (Placeholders(i) = {} /\ turns'[i].reads = turns[i].reads + 1) =>
         researchMessages' = researchMessages]_vars

\* the updates of the one updateMessage call the switch of processLine makes
\* for an event, <<>> when it makes none (a type without a case, an error
\* event, a payload of null)
EventUpdates(eventType, data) ==
  IF data = JsNull THEN <<>>
  ELSE CASE eventType = <<"outline">> ->
              [outline         |-> JsOr(data.outline, "[]"),
               model           |-> JsOr(data.model, Empty),
               streamingStatus |-> "Preparing detailed response..."]
         [] eventType = <<"status">> ->
              [streamingStatus |-> JsOr(data.message, "Generating...")]
         [] eventType = <<"answer">> ->
              [content         |-> JsOr(data.answer, Empty),
               model           |-> data.model,
               isStreaming     |-> "false",
               streamingStatus |-> Undef]
         [] eventType = <<"done">> ->
              [isStreaming      |-> "false",
               streamingStatus  |-> Undef,
               confidence       |-> "85",
               route            |-> "research",
               sessionId        |-> data.sessionId,
               canGoDeeper      |-> data.canGoDeeper,
               deeperSuggestion |-> data.deeperSuggestion]
         [] OTHER -> <<>>

\* the events of a stream, in the order of its data: lines: each data: line
\* that parses, under the type of the event: line since the data: line before
RECURSIVE StreamEvents(_, _)
StreamEvents(lines, pending) ==
  IF lines = <<>> THEN <<>>
  ELSE IF StartsWith(Head(lines), EventPrefix)
       THEN StreamEvents(Tail(lines),
                         Trim(Substring(Head(lines), Len(EventPrefix))))
       ELSE IF StartsWith(Head(lines), DataPrefix)
            THEN LET parsed == JsonParse(Substring(Head(lines), Len(DataPrefix)))
                 IN (IF parsed.ok
                     THEN <<[type |-> pending, data |-> parsed.value]>>
                     ELSE <<>>) \o StreamEvents(Tail(lines), <<>>)
            ELSE StreamEvents(Tail(lines), pending)

\* the left-to-right fold of the per-event patches over a message
RECURSIVE FoldEvents(_, _)
FoldEvents(message, events) ==
  IF events = <<>> THEN message
  ELSE FoldEvents(Merge(message, EventUpdates(Head(events).type, Head(events).data)),
                  Tail(events))

\* C23: while the stream is being read, however it was cut into chunks, the
\* placeholder of the turn is its initial state with the patch of every event
\* of the bytes read so far merged in, one patch per event, in the order of
\* the data: lines.
C23_PatchesFoldInArrivalOrder ==
  turns[1].phase = "reading" =>
    LET at == turns[1].placeholderAt + 1
        lines == Handed(Frame(<<>>, <<>>, delivered).lines)
    IN researchMessages[at] =
         FoldEvents(WireStart(turns[1].caller).rm[at], StreamEvents(lines, <<>>))

\* C24: every request made so far (standard chat, research stream, deeper
\* analysis) has Content-Type application/json, the client identifier of this
\* browser in X-Client-ID, and an Authorization header, 'Bearer ' and the
\* token, exactly when there is an auth token.
C24_RequestHeaders ==
  LET Right(headers) ==
        /\ "Content-Type" \in DOMAIN headers
        /\ headers["Content-Type"] = "application/json"
        /\ "X-Client-ID" \in DOMAIN headers
        /\ storage[ClientIdKey] = <<headers["X-Client-ID"]>>
        /\ "Authorization" \in DOMAIN headers <=> auth.token \notin {Undef, Empty}
        /\ "Authorization" \in DOMAIN headers =>
             headers["Authorization"] = Bearer(auth.token)
  IN /\ \A j \in DOMAIN standardCalls : Right(standardCalls[j].headers)
     /\ \A i \in DOMAIN turns : Right(turns[i].headers)
     /\ \A k \in DOMAIN deepers :
          deepers[k].phase # "ignored" => Right(deepers[k].headers)

\* a data: line whose payload JSON.parse rejects
Malformed(line) ==
  /\ StartsWith(line, DataPrefix)
  /\ ~JsonParse(Substring(line, Len(DataPrefix))).ok

\* C25: in a read whose first line is a data: line with a payload that does
\* not parse, that line patches nothing and settles nothing and the stream
\* goes on: the track, the quota and the turn after the read are what the
\* remaining lines of the read produce from the state before it with the
\* pending event type empty, so the pairs that follow are decoded and applied
\* as if the line had not been there.
C25_MalformedPayloadDropped ==
  [][LET new == SubSeq(handed', Len(handed) + 1, Len(handed'))
     IN (new # <<>> /\ Malformed(Head(new))) =>
          LET from == [rm |-> researchMessages, quota |-> remainingQuota,
                       t |-> [turns[1] EXCEPT
                                !.eventBuffer = <<>>,
                                !.decoderPending = turns'[1].decoderPending,
                                !.partialLine = turns'[1].partialLine]]
              to == ProcessLines(from, Tail(new))
          IN /\ turns'[1] = to.t
             /\ researchMessages' = to.rm
             /\ remainingQuota' = to.quota
             /\ turns'[1].phase = "reading"
             /\ Tail(new) = <<>> =>
                  /\ researchMessages' = researchMessages
                  /\ turns'[1].promise = turns[1].promise
                  /\ turns'[1].eventBuffer = <<>>]_vars

\* C25 witness: a stream of a done event with a cut-short payload and then a
\* done event with sessionId s1 has been read to its end, the malformed line
\* having arrived first in its read: the turn is resolved by the second event.
C25_DoneAfterMalformed ==
  /\ delivered = Event("done", Truncated) \o Event("done", DoneS1)
  /\ wire = <<>>
  /\ Len(handed) = 4 /\ Malformed(handed[2])
  /\ "pair" \in spans
  /\ turns[1].promise = "resolved"
  /\ turns[1].doneSessionId = "s1"
  /\ \E k \in DOMAIN researchMessages : researchMessages[k].sessionId = "s1"

\* whether the lines end with an event: line that no data: line has followed
RECURSIVE EventSinceData(_)
EventSinceData(lines) ==
  IF lines = <<>> THEN FALSE
  ELSE LET last == lines[Len(lines)]
       IN IF StartsWith(last, DataPrefix) THEN FALSE
          ELSE IF StartsWith(last, EventPrefix) THEN TRUE
          ELSE EventSinceData(SubSeq(lines, 1, Len(lines) - 1))

\* C26: in every read of the stream: when its last line is a data: line, the
\* pending event type is empty after it; when its first line is a data: line
\* and no event: line came since the data: line before, that line patches and
\* settles nothing (the state after the read is what the remaining lines
\* produce from the state before); when its first line has neither prefix,
\* that line does nothing and leaves the pending event type as it was.
C26_TypeConsumedByOneDataLine ==
  [][LET new == SubSeq(handed', Len(handed) + 1, Len(handed'))
         From(eventBuffer) ==
           [rm |-> researchMessages, quota |-> remainingQuota,
            t |-> [turns[1] EXCEPT
                     !.eventBuffer = eventBuffer,
                     !.decoderPending = turns'[1].decoderPending,
                     !.partialLine = turns'[1].partialLine]]
         Reaches(c) ==
           /\ turns'[1] = c.t
           /\ researchMessages' = c.rm
           /\ remainingQuota' = c.quota
     IN new # <<>> =>
          /\ StartsWith(new[Len(new)], DataPrefix) => turns'[1].eventBuffer = <<>>
          /\ (StartsWith(Head(new), DataPrefix) /\ ~EventSinceData(handed)) =>
               Reaches(ProcessLines(From(<<>>), Tail(new)))
          /\ (~StartsWith(Head(new), DataPrefix)
                /\ ~StartsWith(Head(new), EventPrefix)) =>
               Reaches(ProcessLines(From(turns[1].eventBuffer), Tail(new)))]_vars

\* C26 witness: after a done event with sessionId s2, a data: line with the
\* payload of a done event with sessionId s1 was handed to processLine with no
\* event: line before it, and no message got s1.
C26_DataLineWithoutEvent ==
  /\ delivered = Event("done", DoneS2) \o DataLine(DoneS1)
  /\ wire = <<>>
  /\ Len(handed) = 3
  /\ turns[1].doneSessionId = "s2"
  /\ turns[1].eventBuffer = <<>>
  /\ \A k \in DOMAIN researchMessages : researchMessages[k].sessionId # "s1"
  /\ \E k \in DOMAIN researchMessages : researchMessages[k].sessionId = "s2"

\* C27: in the step in which the reader reports the end of the body while
\* partialLine holds text, that text is not decoded: no line is handed to
\* processLine, the promise and what the turn has seen of done and error
\* events stay as they were, no event patch is made, and the track changes at
\* most by the end-of-stream patch isStreaming = false.
C27_LeftoverLineDiscarded ==
  [][(turns[1].phase = "reading" /\ turns'[1].phase = "closed"
        /\ turns[1].partialLine # <<>>) =>
       /\ handed' = handed
       /\ turns'[1].promise = turns[1].promise
       /\ turns'[1].afterDone = turns[1].afterDone
       /\ turns'[1].afterError = turns[1].afterError
       /\ turns'[1].patchedAt = turns[1].patchedAt
       /\ turns'[1].eventBuffer = turns[1].eventBuffer
       /\ remainingQuota' = remainingQuota
       /\ researchMessages' \in
            {researchMessages,
             UpdateMessage(researchMessages, turns[1].messageIndex,
                           [isStreaming |-> "false"])}]_vars

\* C27 witness: a body of a done event whose data: line has no newline was
\* read to its end and the stream closed: the data: line is still the
\* leftover, the turn is pending and no message has the sessionId.
C27_UnterminatedDoneClosed ==
  /\ delivered = EventLine("done") \o DataPrefix \o DoneS1
  /\ wire = <<>>
  /\ turns[1].phase = "closed"
  /\ turns[1].partialLine = DataPrefix \o DoneS1
  /\ turns[1].promise = "pending"
  /\ ~turns[1].afterDone
  /\ \A k \in DOMAIN researchMessages : researchMessages[k].sessionId = Undef

\* C28: in a read that brings one event with an object payload: an outline
\* or status event leaves isStreaming of the turn's placeholder and the
\* promise as they were; an answer event sets the placeholder's content from
\* the payload (empty when it has none), isStreaming = false and no
\* streamingStatus, and leaves the promise as it was.
C28_OnlyDoneOrErrorSettles ==
  [][LET new == SubSeq(handed', Len(handed) + 1, Len(handed'))
         events == StreamEvents(new, turns[1].eventBuffer)
         at == turns[1].placeholderAt + 1
     IN (Len(events) = 1 /\ events[1].data # JsNull) =>
          /\ events[1].type \in {<<"outline">>, <<"status">>} =>
               /\ researchMessages'[at].isStreaming = researchMessages[at].isStreaming
               /\ turns'[1].promise = turns[1].promise
          /\ events[1].type = <<"answer">> =>
               /\ researchMessages'[at].content = JsOr(events[1].data.answer, Empty)
               /\ researchMessages'[at].isStreaming = "false"
               /\ researchMessages'[at].streamingStatus = Undef
               /\ turns'[1].promise = turns[1].promise]_vars

\* C29: a step that empties a track leaves no snapshot under that track's key
\* and leaves the other track and its snapshot alone; and after every step a
\* track that is empty has no snapshot, so the snapshot stays absent from the
\* clear until the next append, whatever patches a turn in flight makes on
\* the cleared track meanwhile.
C29_ClearDropsSnapshot ==
  [][/\ (researchMessages # <<>> /\ researchMessages' = <<>>) =>
          /\ storage'[ResearchKey] = <<>>
          /\ messages' = messages
          /\ storage'[MessagesKey] = storage[MessagesKey]
     /\ (messages # <<>> /\ messages' = <<>>) =>
          /\ storage'[MessagesKey] = <<>>
          /\ researchMessages' = researchMessages
          /\ storage'[ResearchKey] = storage[ResearchKey]
     /\ researchMessages' = <<>> => storage'[ResearchKey] = <<>>
     /\ messages' = <<>> => storage'[MessagesKey] = <<>>]_vars

\* C29 witness: the research track was cleared while a turn was reading its
\* stream, the stream then ended without a done event and its end-of-stream
\* patch found no message: the track is empty and has no snapshot.
C29_StalePatchAfterClear ==
  \E i \in DOMAIN turns :
    /\ turns[i].phase = "closed"
    /\ ~turns[i].afterDone
    /\ turns[i].patchMissed
    /\ researchMessages = <<>>
    /\ storage[ResearchKey] = <<>>

\* C30: after every step of the store a track that holds messages, as after
\* any append or patch, has under its own key the snapshot of exactly its
\* messages; the two keys differ; and a step that changes one track changes
\* neither the other track nor the snapshot under the other key.
C30_SnapshotFollowsTrack ==
  [][/\ MessagesKey # ResearchKey
     /\ messages' # <<>> => storage'[MessagesKey] = <<JsonStringify(messages')>>
     /\ researchMessages' # <<>> =>
          storage'[ResearchKey] = <<JsonStringify(researchMessages')>>
     /\ messages' # messages =>
          /\ researchMessages' = researchMessages
          /\ storage'[ResearchKey] = storage[ResearchKey]
     /\ researchMessages' # researchMessages =>
          /\ messages' = messages
          /\ storage'[MessagesKey] = storage[MessagesKey]]_vars

\* C30 witness: without a reload, the standard track got a message and the
\* research track got a placeholder that was then patched; each key holds the
\* snapshot of its own track and the two snapshots differ.
C30_BothTracksSaved ==
  /\ mounts = 1
  /\ Len(messages) = 1 /\ Len(researchMessages) = 1
  /\ researchMessages[1].isStreaming = "false"
  /\ researchMessages[1].content = Empty
  /\ storage[MessagesKey] = <<JsonStringify(messages)>>
  /\ storage[ResearchKey] = <<JsonStringify(researchMessages)>>
  /\ storage[MessagesKey] # storage[ResearchKey]

\* C31: the remaining quota after a step is the remainingQuota of the payload
\* when the step handled a done event of a research stream or of a deeper
\* stream whose payload has one, or took a successful standard response that
\* has one (0 included); after every other step it is what it was.
C31_QuotaFollowsPayload ==
  [][LET turnQuota == {turns'[i].quotaSeen : i \in
                         {n \in DOMAIN turns :
                            /\ turns'[n].reads = turns[n].reads + 1
                            /\ turns'[n].quotaSeen # Undef}}
         deeperQuota == {deepers'[k].lastData.remainingQuota : k \in
                           {n \in DOMAIN deepers :
                              /\ deepers'[n].eventsHandled =
                                   deepers[n].eventsHandled + 1
                              /\ deepers'[n].lastEvent = <<"done">>
                              /\ deepers'[n].lastData # JsNull
                              /\ deepers'[n].lastData.remainingQuota # Undef}}
         standardQuota == {standardCalls'[j].response.remainingQuota : j \in
                             {n \in DOMAIN standardCalls :
                                /\ standardCalls[n].status = "pending"
                                /\ standardCalls'[n].status = "settled"
                                /\ standardCalls'[n].response.kind = "ok"
                                /\ standardCalls'[n].response.remainingQuota
                                     # Undef}}
         carried == turnQuota \cup deeperQuota \cup standardQuota
     IN IF carried = {} THEN remainingQuota' = remainingQuota
        ELSE carried = {remainingQuota'}]_vars

\* C31 witness: a research turn was resolved by a done event whose payload
\* has remainingQuota 0, read while no quota was known, and the remaining
\* quota is 0; no standard call and no deeper call was made.
C31_DoneCarriedQuotaZero ==
  /\ standardCalls = <<>>
  /\ deepers = <<>>
  /\ remainingQuota = "0"
  /\ \E i \in DOMAIN turns :
       /\ turns[i].promise = "resolved"
       /\ turns[i].quotaSeen = "0"

\* C32: a step in which sendMessage was accepted (a user message was appended
\* and a request started) ends with isLoading = true, and whenever isLoading
\* is true it is false again at some later point, given that every fetch
\* settles and every stream body ends.
C32_LoadingEventuallyEnds ==
  /\ [][(Len(turns') + Len(standardCalls') > Len(turns) + Len(standardCalls))
          => isLoading']_vars
  /\ (isLoading ~> ~isLoading)

\* C33: once the promise of a research turn is settled it keeps its outcome
\* and its reason, and no later step of that turn (an error event after done,
\* a done event after error, a read failure, the stream closing) touches the
\* error slot.
C33_FirstTerminalEventDecides ==
  [][\A i \in DOMAIN turns :
       turns[i].promise # "pending" =>
         /\ turns'[i].promise = turns[i].promise
         /\ turns'[i].reason = turns[i].reason
         /\ turns'[i] # turns[i] => error' = error]_vars

\* C33 witness: two turns of sendMessage; one handled a done event and then
\* an error event and is resolved, the other handled an error event and then
\* a done event, is rejected, and its reason is in the error slot.
C33_ErrorAfterDoneAndDoneAfterError ==
  /\ \E i \in DOMAIN turns :
       /\ turns[i].caller = "sendMessage"
       /\ turns[i].promise = "resolved"
       /\ turns[i].afterDone /\ turns[i].afterError
  /\ \E i \in DOMAIN turns :
       /\ turns[i].caller = "sendMessage"
       /\ turns[i].promise = "rejected"
       /\ turns[i].afterDone /\ turns[i].afterError
       /\ error = turns[i].reason
       /\ error = "boom"

\* C34: the reply of a standard request is appended to the track its user
\* message was appended to: the step that takes a successful response of a
\* request sent in research mode (without article context) appends the
\* assistant message to the research track, and of one sent in standard mode
\* to the standard track.
C34_ReplyJoinsUserMessage ==
  [][\A j \in DOMAIN standardCalls :
       (/\ standardCalls[j].status = "pending"
        /\ standardCalls'[j].status = "settled"
        /\ standardCalls'[j].response.kind = "ok") =>
         IF standardCalls[j].isResearchMode
         THEN /\ Len(researchMessages') = Len(researchMessages) + 1
              /\ researchMessages'[Len(researchMessages')].role = "assistant"
              /\ messages' = messages
         ELSE /\ Len(messages') = Len(messages) + 1
              /\ messages'[Len(messages')].role = "assistant"
              /\ researchMessages' = researchMessages]_vars

\* C35: a step in which config.onAuthRequired is called is a sendMessage with
\* non-blank content while not authenticated, calls it exactly once and
\* changes nothing else; while not authenticated no step appends a user
\* message, starts a standard request or a turn of sendMessage, or changes
\* isLoading or the error slot; and no step at all appends a user message
\* with blank content or sends a blank question.
C35_RefusedSendIsNoOp ==
  [][/\ authRequired' # authRequired =>
          /\ ~auth.isAuthenticated
          /\ \E content \in Contents :
               /\ StrTrim(content) # Empty
               /\ authRequired' = Append(authRequired, content)
          /\ UNCHANGED <<messages, researchMessages, isLoading, error, turns,
                         standardCalls, deepers, storage, remainingQuota>>
     /\ ~auth.isAuthenticated =>
          /\ UNCHANGED <<messages, isLoading, error, standardCalls>>
          /\ \A n \in DOMAIN researchMessages' :
               researchMessages'[n].role # "user"
          /\ \A i \in DOMAIN turns' : turns'[i].caller # "sendMessage"
     /\ \A n \in DOMAIN messages' :
          messages'[n].role = "user" => messages'[n].content # Empty
     /\ \A n \in DOMAIN researchMessages' :
          researchMessages'[n].role = "user" =>
            researchMessages'[n].content # Empty
     /\ \A j \in DOMAIN standardCalls' :
          StrTrim(standardCalls'[j].question) # Empty]_vars

\* C35 witness: not authenticated, sendMessage(' Hello ') was called twice
\* and nothing else was: config.onAuthRequired was called once by each, both
\* tracks are empty, no request was made, isLoading is false and the error
\* slot is empty.
C35_AuthRequiredAsked ==
  /\ ~auth.isAuthenticated
  /\ authRequired = <<" Hello ", " Hello ">>
  /\ messages = <<>> /\ researchMessages = <<>>
  /\ turns = <<>> /\ standardCalls = <<>> /\ deepers = <<>>
  /\ ~isLoading
  /\ error = "null"

\* C36: the step in which the transport of a deeper call ends (its fetch
\* fails, or the reading of its stream ends by the reader reporting done or
\* by a read failing) leaves the call's promise settled and the target
\* message with isLoadingDeeper = false, whatever events came before.
C36_EndedDeeperIsSettled ==
  [][\A k \in DOMAIN deepers :
       (/\ deepers[k].phase \in {"fetching", "reading"}
        /\ deepers'[k].phase \in {"failed", "closed", "broken"}) =>
         /\ deepers'[k].promise # "pending"
         /\ deepers[k].messageIndex + 1 \in DOMAIN researchMessages' =>
              researchMessages'[deepers[k].messageIndex + 1].isLoadingDeeper
                = "false"]_vars

\* C37: a step in which requestDeeperAnalysis opens a stream for a message
\* finds that message with canGoDeeper = true and without isLoadingDeeper =
\* true, and finds no other deeper call of that message pending.
C37_OneDeeperPerMessage ==
  [][\A k \in DOMAIN deepers' :
       (k \notin DOMAIN deepers /\ deepers'[k].phase # "ignored") =>
         LET at == deepers'[k].messageIndex + 1
         IN /\ researchMessages[at].canGoDeeper = "true"
            /\ researchMessages[at].isLoadingDeeper # "true"
            /\ \A n \in DOMAIN deepers :
                 ~(/\ deepers[n].messageIndex = deepers'[k].messageIndex
                   /\ deepers[n].phase # "ignored"
                   /\ deepers[n].promise = "pending")]_vars

====
